---- MODULE Spec2Model ----
(***************************************************************************)
(* A model of the thors server: the transactions table and the db module   *)
(* (src/server/db.rs), the invoice reconciler (src/server/background.rs),  *)
(* the startup sequence (src/main.rs) and the pay-invoice paths            *)
(* (src/server/api.rs, src/server/functions.rs).                           *)
(*                                                                         *)
(* Every .await of the code is a step boundary: one action runs the code   *)
(* between two awaits.  A SQL statement is atomic.                         *)
(***************************************************************************)
EXTENDS Integers, Sequences, FiniteSets, TLC

(* ------------------------------------------------------------------ *)
(* Bounds of the model                                                *)
(* ------------------------------------------------------------------ *)

\* What reaches the server from outside in one run: the updates the node sends
\* (invoice added, state change, re-delivery) and the pay-invoice submissions.
MaxInputs == 3
\* Calls the db harness starts in total.
MaxGateCalls == 3
\* State codes given to the mapping: -MaxCode .. MaxCode.
MaxCode == 60
\* The capacity of the broadcast channel (100 in main.rs), scaled down.
BusCapacity == 1

\* The digits of the longest small number given to parse_amount_msats.
MaxDigits == 4
\* The symbols of the longest sequence given to five_bit_to_bytes.
MaxSymbols == 8
\* The tagged fields of the longest payload given to the decoder.
MaxFields == 2
\* The rows of the largest table given to the functions of db.rs that are
\* applied to rows with all their columns.
MaxRows == 2
\* The symbols of the longest expiry tag given to the decoder on its own.
MaxExpiryLen == 14

\* The payment hashes of the model, in the order the node lists them.
HashSeq == <<"h1", "h2">>

ListedHashes == {HashSeq[i] : i \in DOMAIN HashSeq}

\* The hashes of the invoices added and the payments submitted while the
\* server runs.
Hashes == {"h1"}

(* ------------------------------------------------------------------ *)
(* models.rs: TxType, TxStatus, NewTransaction                        *)
(* ------------------------------------------------------------------ *)

TxType == {"invoice", "payment"}

TxStatus == {"pending", "succeeded", "failed", "expired"}

Terminal == {"succeeded", "failed", "expired"}

Keys == TxType \X ListedHashes

NewTransactionAsInvoice(k, h, st) == [kind |-> "invoice", hash |-> h, status |-> st]

\* NewTransaction::new: the candidate row (the fields the claims read).
NewTransaction(k, h, st) == [kind |-> k, hash |-> h, status |-> st]

NoCand == [kind |-> "-", hash |-> "-", status |-> "-"]

(* ------------------------------------------------------------------ *)
(* lnrpc InvoiceState codes and their mapping                          *)
(* ------------------------------------------------------------------ *)

Open == 0
Settled == 1
Canceled == 2
Accepted == 3

lnd_state_to_tx_status_default_failed(state) ==
    IF state = Open THEN "pending"
    ELSE IF state = Settled THEN "succeeded"
    ELSE IF state = Canceled THEN "expired"
    ELSE IF state = Accepted THEN "pending"
    ELSE "failed"

lnd_state_to_tx_status(state) ==
    IF state = Open THEN "pending"
    ELSE IF state = Settled THEN "succeeded"
    ELSE IF state = Canceled THEN "expired"
    ELSE IF state = Accepted THEN "pending"
    ELSE "pending"

VARIABLES
    store,       \* the transactions table: a sequence of rows, id = position
    lastWrite,   \* history: the db function and the change of the last write
    trans,       \* history: per key, the inserts and status changes made
    call,        \* per caller, the upsert_transaction call it is in
    gateCalls,   \* db harness: calls started
    nodeInv,     \* the node: each invoice's state code, -1 when it has none
    nodeSeen,    \* the node: the (hash, code) events it has emitted
    inputs,      \* updates sent by the node and submissions received so far
    stream,      \* items in flight on the subscription stream
    streamOpen,  \* whether the node holds an open subscription stream
    mainPc,      \* main(): where the startup sequence is
    syncList,    \* sync_invoices_from_lnd: the listed invoices still to upsert
    subPc,       \* subscribe_to_invoices: where the loop is
    subEv,       \* handle_invoice_event: the event being handled
    outcome,     \* history: what sent the subscription loop to its sleep
    faulted,     \* history: the list fetch or a database call of the reconciler failed
    bus,         \* history: the events sent on the broadcast channel
    hist,        \* history: the last two upsert_transaction calls that returned
    req,         \* per pay-invoice submission, where its handler is
    rx,          \* per SSE client, its receiver on the broadcast channel
    mapIn,       \* a state code given to lnd_state_to_tx_status
    mapOut,      \* the status it returned, "-" before the call
    lnd,         \* the shared node connection: who holds its lock, each caller's position
    fnIn,        \* the input given to a function applied on its own
    fnOut,       \* <<r>> when the function returned r, <<>> before the call
    inv          \* the create-invoice submission: where its handler is

dbVars == <<store, lastWrite, trans>>
nodeVars == <<nodeInv, nodeSeen, inputs>>
streamVars == <<stream, streamOpen>>
reconVars == <<mainPc, syncList, subPc, subEv, outcome, faulted>>
vars == <<store, lastWrite, trans, call, gateCalls, nodeInv, nodeSeen, inputs,
          stream, streamOpen, mainPc, syncList, subPc, subEv, outcome, faulted,
          bus, hist, req, rx, mapIn, mapOut, lnd, fnIn, fnOut, inv>>

\* What only the db harness, the SSE clients and the mapping's driver change.
pureVars == <<mapIn, mapOut, fnIn, fnOut>>

sideVars == <<gateCalls, rx, lnd, pureVars, inv>>

(* ------------------------------------------------------------------ *)
(* The transactions table                                              *)
(* ------------------------------------------------------------------ *)

KeyRows(s, k, h) == {i \in DOMAIN s : s[i].kind = k /\ s[i].hash = h}

HasKey(s, k, h) == KeyRows(s, k, h) # {}

\* .first() of the rows of a key: the status of the first one, "absent" if none.
StatusOf(s, k, h) ==
    IF HasKey(s, k, h)
    THEN s[CHOOSE i \in KeyRows(s, k, h) : \A j \in KeyRows(s, k, h) : i <= j].status
    ELSE "absent"

NoUniqueConstraint(s, new) == TRUE

\* The table's unique constraint on (tx_type, payment_hash): the insert is
\* accepted only when no row holds the key.
UniqueConstraint(s, new) == ~HasKey(s, new.kind, new.hash)

\* INSERT INTO transactions ... RETURNING: the row is appended, or the
\* statement fails with UniqueViolation and changes nothing.
InsertRow(s, new) ==
    IF UniqueConstraint(s, new)
    THEN [ok |-> TRUE, store |-> Append(s, new)]
    ELSE [ok |-> FALSE, store |-> s]

UpdateStatusPurgeExpired(s, cand) ==
    LET hit == {i \in KeyRows(s, cand.kind, cand.hash) : s[i].status # cand.status}
        Kept(row) == row.kind # cand.kind \/ row.hash # cand.hash
    IN  [hit |-> hit # {},
         store |-> IF cand.status = "expired" /\ hit # {}
                   THEN SelectSeq(s, Kept)
                   ELSE [i \in DOMAIN s |->
                           IF i \in hit THEN [s[i] EXCEPT !.status = cand.status] ELSE s[i]]]

UpdateStatusNoFilter(s, cand) ==
    LET hit == KeyRows(s, cand.kind, cand.hash)
    IN  [hit |-> hit # {},
         store |-> [i \in DOMAIN s |->
                      IF i \in hit THEN [s[i] EXCEPT !.status = cand.status] ELSE s[i]]]

UpdateStatusNeAnyKind(s, cand) ==
    LET hit == {i \in DOMAIN s : s[i].hash = cand.hash /\ s[i].status # cand.status}
    IN  [hit |-> hit # {},
         store |-> [i \in DOMAIN s |->
                      IF i \in hit THEN [s[i] EXCEPT !.status = cand.status] ELSE s[i]]]

\* upsert_transaction's UPDATE ... WHERE payment_hash = .. AND tx_type = ..
\* AND status <> new status SET status = new status.
UpdateStatusNe(s, cand) ==
    LET hit == {i \in KeyRows(s, cand.kind, cand.hash) : s[i].status # cand.status}
    IN  [hit |-> hit # {},
         store |-> [i \in DOMAIN s |->
                      IF i \in hit THEN [s[i] EXCEPT !.status = cand.status] ELSE s[i]]]

\* update_transaction_status's UPDATE ... WHERE payment_hash = .. AND tx_type = ..
\* SET status = ..: no condition on the stored status; no row is NotFound.
UpdateStatus(s, k, h, st) ==
    LET hit == KeyRows(s, k, h)
    IN  [hit |-> hit # {},
         store |-> [i \in DOMAIN s |->
                      IF i \in hit THEN [s[i] EXCEPT !.status = st] ELSE s[i]]]

\* History: the write a db function made, recorded with the function's name;
\* an insert or a change of status counts as a transition of the key.
Wrote(fn, k, h, from, to) ==
    /\ lastWrite' = [fn |-> fn, kind |-> k, hash |-> h, from |-> from, to |-> to]
    /\ trans' = IF from # to THEN [trans EXCEPT ![<<k, h>>] = @ + 1] ELSE trans

NoWrite == [fn |-> "-", kind |-> "-", hash |-> "-", from |-> "-", to |-> "-"]

(* ------------------------------------------------------------------ *)
(* upsert_transaction, one step per statement                          *)
(* ------------------------------------------------------------------ *)

\* The concurrent callers of the db harness.
GateCallers == {"g1", "g2"}

ProgCallers == {"sync", "sub"}

Callers == ProgCallers \cup GateCallers

IdleCall == [pc |-> "idle", cand |-> NoCand, res |-> "-", tx |-> NoCand, pre |-> "-",
             changed |-> FALSE, sawEq |-> FALSE, ins |-> FALSE, insOk |-> FALSE]

InCall(r) == r.pc \in {"update", "select", "insert"}

\* History: a call in progress notes that the store holds its key with the
\* candidate's status.
Observe(calls, s) ==
    [c \in Callers |->
        IF InCall(calls[c]) /\ StatusOf(s, calls[c].cand.kind, calls[c].cand.hash)
                                  = calls[c].cand.status
        THEN [calls[c] EXCEPT !.sawEq = TRUE]
        ELSE calls[c]]

\* pool.get().await?: the call holds a connection, or returns the pool's error.
BeginCall(cand, poolOk) ==
    IF poolOk
    THEN [IdleCall EXCEPT !.pc = "update", !.cand = cand,
                          !.pre = StatusOf(store, cand.kind, cand.hash)]
    ELSE [IdleCall EXCEPT !.pc = "ret", !.cand = cand, !.res = "Err",
                          !.pre = StatusOf(store, cand.kind, cand.hash)]

\* The conditional update; a row updated is returned as Some.
UpsertUpdate(c) ==
    LET r == call[c]
        u == UpdateStatusNe(store, r.cand)
    IN  /\ r.pc = "update"
        /\ store' = u.store
        /\ IF u.hit
           THEN /\ call' = Observe([call EXCEPT ![c] =
                              [r EXCEPT !.pc = "ret", !.res = "Some", !.tx = r.cand,
                                        !.changed = TRUE]],
                              u.store)
                /\ Wrote("upsert_transaction", r.cand.kind, r.cand.hash,
                         StatusOf(store, r.cand.kind, r.cand.hash), r.cand.status)
           ELSE /\ call' = Observe([call EXCEPT ![c] = [r EXCEPT !.pc = "select"]], store)
                /\ UNCHANGED <<lastWrite, trans>>
        /\ UNCHANGED <<sideVars, nodeVars, streamVars, reconVars, bus, hist, req>>

\* The existence check; an existing row is None.
UpsertSelect(c) ==
    LET r == call[c]
    IN  /\ r.pc = "select"
        /\ call' = [call EXCEPT ![c] =
                      IF HasKey(store, r.cand.kind, r.cand.hash)
                      THEN [r EXCEPT !.pc = "ret", !.res = "None"]
                      ELSE [r EXCEPT !.pc = "insert"]]
        /\ UNCHANGED <<dbVars, sideVars, nodeVars, streamVars, reconVars, bus, hist, req>>

InsertResultErr(ok) == IF ok THEN "Some" ELSE "Err"

\* match insert_result: Ok(tx) => Some, UniqueViolation => None.
InsertResult(ok) == IF ok THEN "Some" ELSE "None"

\* The insert.
UpsertInsert(c) ==
    LET r == call[c]
        n == InsertRow(store, r.cand)
    IN  /\ r.pc = "insert"
        /\ store' = n.store
        /\ call' = Observe([call EXCEPT ![c] =
                      [r EXCEPT !.pc = "ret", !.res = InsertResult(n.ok),
                                !.tx = IF n.ok THEN r.cand ELSE NoCand,
                                !.ins = TRUE, !.insOk = n.ok, !.changed = n.ok]], n.store)
        /\ IF n.ok
           THEN Wrote("upsert_transaction", r.cand.kind, r.cand.hash, "absent",
                      r.cand.status)
           ELSE UNCHANGED <<lastWrite, trans>>
        /\ UNCHANGED <<sideVars, nodeVars, streamVars, reconVars, bus, hist, req>>

(* ------------------------------------------------------------------ *)
(* The db harness: concurrent callers of the db module                 *)
(* ------------------------------------------------------------------ *)

GateBegin(c) ==
    /\ call[c].pc = "idle"
    /\ gateCalls < MaxGateCalls
    /\ \E k \in TxType, h \in Hashes, st \in TxStatus, poolOk \in BOOLEAN :
          call' = Observe([call EXCEPT ![c] = BeginCall(NewTransaction(k, h, st), poolOk)],
                          store)
    /\ gateCalls' = gateCalls + 1
    /\ UNCHANGED <<rx, lnd, pureVars, inv>>
    /\ UNCHANGED <<dbVars, nodeVars, streamVars, reconVars, bus, hist, req>>

GateReturn(c) ==
    /\ call[c].pc = "ret"
    /\ call' = [call EXCEPT ![c] = IdleCall]
    /\ UNCHANGED <<dbVars, sideVars, nodeVars, streamVars, reconVars, bus, hist, req>>

\* create_transaction called directly.
GateCreate ==
    /\ gateCalls < MaxGateCalls
    /\ \E k \in TxType, h \in Hashes, st \in TxStatus :
          LET n == InsertRow(store, NewTransaction(k, h, st))
          IN  /\ store' = n.store
              /\ call' = Observe(call, n.store)
              /\ IF n.ok
                 THEN Wrote("create_transaction", k, h, "absent", st)
                 ELSE UNCHANGED <<lastWrite, trans>>
    /\ gateCalls' = gateCalls + 1
    /\ UNCHANGED <<rx, lnd, pureVars, inv>>
    /\ UNCHANGED <<nodeVars, streamVars, reconVars, bus, hist, req>>

\* update_transaction_status called directly.
GateUpdateStatus ==
    /\ gateCalls < MaxGateCalls
    /\ \E k \in TxType, h \in Hashes, st \in TxStatus :
          LET u == UpdateStatus(store, k, h, st)
          IN  /\ store' = u.store
              /\ call' = Observe(call, u.store)
              /\ IF u.hit
                 THEN Wrote("update_transaction_status", k, h, StatusOf(store, k, h), st)
                 ELSE UNCHANGED <<lastWrite, trans>>
    /\ gateCalls' = gateCalls + 1
    /\ UNCHANGED <<rx, lnd, pureVars, inv>>
    /\ UNCHANGED <<nodeVars, streamVars, reconVars, bus, hist, req>>

\* The SSE clients.
Subs == {"s1", "s2"}

\* A client that has not connected: no receiver.
NoRx == [pos |-> 0, start |-> 0, got |-> <<>>, lag |-> 0]

\* The receivers of the broadcast channel.
Receivers == Cardinality({c \in Subs : rx[c].pos > 0})

\* broadcast::Sender::send: Err when the channel has no receiver.
SendResult(n) == IF n = 0 THEN "Err" ELSE "Ok"

AfterSendPropagate(sendRes, out) == IF sendRes = "Err" THEN "SendError" ELSE out

\* let _ = broadcast_tx.send(event): the result is dropped and the publisher
\* goes on to its own result.
AfterSend(sendRes, out) == out

\* History: the events as sent, each with the receivers the channel had.
Sent(events) ==
    [i \in DOMAIN events |->
        [type |-> events[i].type, tx |-> events[i].tx, rcv |-> Receivers]]

\* The handlers that serve pay-invoice submissions concurrently.
Reqs == {1, 2}

\* sent: send_payment has been issued; upd: what became of the status update
\* after the node's answer ("ok", "failed", "-" when none was made).
IdleReq ==
    [pc |-> "new", path |-> "-", hash |-> "-", ans |-> "-", out |-> "-",
     sent |-> FALSE, upd |-> "-"]

\* The tasks that hold a clone of one LightningClients and call it.
LndCallers == {"t1", "t2", "t3"}

\* from_client: the connection is idle and its lock is free.
IdleLnd ==
    [holder |-> "-",
     pc |-> [c \in LndCallers |-> "idle"],
     op |-> [c \in LndCallers |-> "-"],
     res |-> [c \in LndCallers |-> "-"]]

\* No create-invoice submission has been received.
IdleInv == [pc |-> "new", path |-> "-", hash |-> "-", out |-> "-"]

Init ==
    /\ store = <<>>
    /\ lastWrite = NoWrite
    /\ trans = [k \in Keys |-> 0]
    /\ call = [c \in Callers |-> IdleCall]
    /\ gateCalls = 0
    /\ nodeInv = [h \in ListedHashes |-> -1]
    /\ nodeSeen = {}
    /\ inputs = 0
    /\ stream = <<>>
    /\ streamOpen = FALSE
    /\ mainPc = "list"
    /\ syncList = <<>>
    /\ subPc = "off"
    /\ subEv = <<>>
    /\ outcome = "-"
    /\ faulted = FALSE
    /\ bus = <<>>
    /\ hist = <<>>
    /\ req = [p \in Reqs |-> IdleReq]
    /\ rx = [c \in Subs |-> NoRx]
    /\ mapIn = 0
    /\ mapOut = "-"
    /\ lnd = IdleLnd
    /\ fnIn = 0
    /\ fnOut = <<>>
    /\ inv = IdleInv

(* ------------------------------------------------------------------ *)
(* The node (environment)                                              *)
(* ------------------------------------------------------------------ *)

\* The node sends an invoice update on the open subscription stream; with
\* no stream open nobody is sent it (the subscription asks for no backlog:
\* add_index 0, settle_index 0).
Emit(h, code) ==
    /\ stream' = IF streamOpen THEN Append(stream, <<"invoice", h, code>>) ELSE stream
    /\ nodeSeen' = nodeSeen \cup {<<h, code>>}
    /\ inputs' = inputs + 1
    /\ UNCHANGED streamOpen

\* The state changes of an invoice at the node.
NodeSteps(code) ==
    IF code = -1 THEN {Open}
    ELSE IF code = Open THEN {Accepted, Settled, Canceled}
    ELSE IF code = Accepted THEN {Settled, Canceled}
    ELSE {}

\* An invoice is added at the node, or changes state.
NodeChange(h) ==
    /\ inputs < MaxInputs
    /\ \E code \in NodeSteps(nodeInv[h]) :
          /\ nodeInv' = [nodeInv EXCEPT ![h] = code]
          /\ Emit(h, code)
    /\ UNCHANGED <<dbVars, call, sideVars, reconVars, bus, hist, req>>

\* An update the node has sent before arrives again (a duplicate, or late).
NodeRedeliver(h) ==
    /\ inputs < MaxInputs
    /\ streamOpen
    /\ \E code \in {Open, Settled, Canceled, Accepted} :
          /\ <<h, code>> \in nodeSeen
          /\ Emit(h, code)
    /\ UNCHANGED <<dbVars, call, sideVars, nodeInv, reconVars, bus, hist, req>>

\* The stream ends, or fails: the item that says so follows what was sent.
StreamBreak ==
    /\ streamOpen
    /\ streamOpen' = FALSE
    /\ \E how \in {"end", "error"} : stream' = Append(stream, <<how>>)
    /\ UNCHANGED <<dbVars, call, sideVars, nodeVars, reconVars, bus, hist, req>>

(* ------------------------------------------------------------------ *)
(* main.rs and sync_invoices_from_lnd                                  *)
(* ------------------------------------------------------------------ *)

Listed(e) == e[2] # -1

\* ListInvoiceResponse.invoices: every invoice of the node with its state.
ListInvoices ==
    SelectSeq([i \in DOMAIN HashSeq |-> <<HashSeq[i], nodeInv[HashSeq[i]]>>], Listed)

\* History: the last two calls that returned, each with where its invoice
\* came from (the list or the stream), whether a notification was published
\* and what the caller of upsert_transaction returned.
Remember(r, published, from, ret) ==
    LET e == [cand |-> r.cand, res |-> r.res, pre |-> r.pre, pub |-> published,
              from |-> from, ret |-> ret]
    IN  IF Len(hist) < 2 THEN Append(hist, e) ELSE <<hist[2], e>>

SubWhileSyncSpawned(pc) == "subscribe"

\* main awaits sync_invoices_from_lnd before it spawns anything: while the
\* sync runs the subscription task is where it was, not started.
SubWhileSync(pc) == pc

\* lnd_client.lightning().list_invoices(request).await: the list, or an error
\* that is logged.
SyncList ==
    /\ mainPc = "list"
    /\ \/ /\ syncList' = ListInvoices
          /\ mainPc' = "sync"
          /\ UNCHANGED faulted
       \/ /\ syncList' = <<>>
          /\ mainPc' = "spawn"
          /\ faulted' = TRUE
    /\ subPc' = SubWhileSync(subPc)
    /\ UNCHANGED <<dbVars, call, sideVars, nodeVars, streamVars, subEv,
                   outcome, bus, hist, req>>

\* for inv in &resp.invoices: the candidate and the call of upsert_transaction.
SyncUpsert ==
    /\ mainPc = "sync"
    /\ syncList # <<>>
    /\ call["sync"].pc = "idle"
    /\ \E poolOk \in BOOLEAN :
          /\ call' = Observe([call EXCEPT !["sync"] =
                        BeginCall(NewTransaction("invoice", Head(syncList)[1],
                                      lnd_state_to_tx_status(Head(syncList)[2])), poolOk)],
                        store)
          /\ faulted' = (faulted \/ ~poolOk)
    /\ UNCHANGED <<dbVars, sideVars, nodeVars, streamVars, mainPc, syncList, subPc,
                   subEv, outcome, bus, hist, req>>

RestAfterAbortOnError(res, list) == IF res = "Err" THEN <<>> ELSE Tail(list)

\* The for loop goes on to the next listed invoice whatever the result.
RestAfter(res, list) == Tail(list)

SyncSentChanged(res, cand, row) ==
    IF res = "Some"
    THEN <<[type |-> IF cand.status = "pending" THEN "InvoiceCreated"
                     ELSE IF cand.status = "succeeded" THEN "InvoiceSettled"
                     ELSE "InvoiceExpired",
            tx |-> row]>>
    ELSE <<>>

\* Ok(Some(_)) => changed += 1, Ok(None) => unchanged += 1, Err(e) => logged:
\* no arm sends anything, and main creates the channel after the sync.
SyncSent(res, cand, row) == <<>>

\* match db::upsert_transaction(..).await: the result is tallied or logged.
SyncTally ==
    LET r == call["sync"]
        ev == SyncSent(r.res, r.cand, r.tx)
    IN  /\ mainPc = "sync"
        /\ r.pc = "ret"
        /\ syncList' = RestAfter(r.res, syncList)
        /\ bus' = bus \o Sent(ev)
        /\ hist' = Remember(r, ev # <<>>, "list", "-")
        /\ call' = [call EXCEPT !["sync"] = IdleCall]
        /\ UNCHANGED <<dbVars, sideVars, nodeVars, streamVars, mainPc, subPc, subEv,
                       outcome, faulted, req>>

\* The loop is over and sync_invoices_from_lnd returns.
SyncDone ==
    /\ mainPc = "sync"
    /\ syncList = <<>>
    /\ call["sync"].pc = "idle"
    /\ mainPc' = "spawn"
    /\ UNCHANGED <<dbVars, call, sideVars, nodeVars, streamVars, syncList, subPc,
                   subEv, outcome, faulted, bus, hist, req>>

\* broadcast::channel, spawn_background_tasks, then the server is built and serves.
Spawn ==
    /\ mainPc = "spawn"
    /\ mainPc' = "serving"
    /\ subPc' = "subscribe"
    /\ UNCHANGED <<dbVars, call, sideVars, nodeVars, streamVars, syncList, subEv,
                   outcome, faulted, bus, hist, req>>

(* ------------------------------------------------------------------ *)
(* subscribe_to_invoices and handle_invoice_event                      *)
(* ------------------------------------------------------------------ *)

\* subscribe_invoices(subscription).await: a stream, or an error that is logged.
Subscribe ==
    /\ subPc = "subscribe"
    /\ \/ /\ streamOpen' = TRUE
          /\ stream' = <<>>
          /\ subPc' = "next"
          /\ outcome' = "-"
       \/ /\ subPc' = "sleep"
          /\ outcome' = "subscribe_failed"
          /\ UNCHANGED streamVars
    /\ UNCHANGED <<dbVars, call, sideVars, nodeVars, mainPc, syncList, subEv,
                   faulted, bus, hist, req>>

AfterReceiveSpawned == "next"

\* handle_invoice_event(..).await: the loop waits for the handler.
AfterReceive == "handle"

\* stream.next().await yields an invoice: handle_invoice_event builds the
\* candidate and calls upsert_transaction.
StreamInvoice ==
    /\ subPc = "next"
    /\ stream # <<>>
    /\ Head(stream)[1] = "invoice"
    /\ stream' = Tail(stream)
    /\ subEv' = Head(stream)
    /\ subPc' = AfterReceive
    /\ \E poolOk \in BOOLEAN :
          /\ call' = Observe([call EXCEPT !["sub"] =
                        BeginCall(NewTransaction("invoice", Head(stream)[2],
                                      lnd_state_to_tx_status(Head(stream)[3])), poolOk)],
                        store)
          /\ faulted' = (faulted \/ ~poolOk)
    /\ UNCHANGED <<dbVars, sideVars, nodeVars, streamOpen, mainPc, syncList,
                   outcome, bus, hist, req>>

\* stream.next().await yields an error (break) or None: the inner loop is left.
StreamOver ==
    /\ subPc = "next"
    /\ stream # <<>>
    /\ Head(stream)[1] \in {"end", "error"}
    /\ stream' = <<>>
    /\ subPc' = "sleep"
    /\ outcome' = IF Head(stream)[1] = "end" THEN "stream_ended" ELSE "stream_error"
    /\ UNCHANGED <<dbVars, call, sideVars, nodeVars, streamOpen, mainPc, syncList,
                   subEv, faulted, bus, hist, req>>

PublishesAlways(res) == res \in {"Some", "None"}

\* if let Some(tx) = result: only a change is broadcast.
Publishes(res) == res = "Some"

InvoiceEventOfNoCreated(cand, row) ==
        IF cand.status = "succeeded" THEN <<[type |-> "InvoiceSettled", tx |-> row]>>
        ELSE IF cand.status = "expired" THEN <<[type |-> "InvoiceExpired", tx |-> row]>>
        ELSE <<>>

InvoiceEventOfAlwaysCreated(cand, row) ==
        IF cand.status = "failed" THEN <<>>
        ELSE <<[type |-> "InvoiceCreated", tx |-> row]>>

\* The event of a changed invoice, by the candidate's status; none for Failed.
InvoiceEventOf(cand, row) ==
        IF cand.status = "pending" THEN <<[type |-> "InvoiceCreated", tx |-> row]>>
        ELSE IF cand.status = "succeeded" THEN <<[type |-> "InvoiceSettled", tx |-> row]>>
        ELSE IF cand.status = "expired" THEN <<[type |-> "InvoiceExpired", tx |-> row]>>
        ELSE <<>>

AfterHandledBreakOnError(res) == IF res = "Err" THEN "sleep" ELSE "next"

\* if let Err(e) = handle_invoice_event(..).await: the error is logged and
\* the while loop goes on.
AfterHandled(res) == "next"

\* upsert_transaction has returned to handle_invoice_event: a change is
\* broadcast, an error is logged, and the loop takes the next item.
Handled ==
    LET r == call["sub"]
        ev == IF Publishes(r.res) THEN InvoiceEventOf(r.cand, r.tx) ELSE <<>>
    IN  /\ subPc = "handle"
        /\ r.pc = "ret"
        /\ bus' = bus \o Sent(ev)
        /\ hist' = Remember(r, ev # <<>>, "stream",
                           IF r.res = "Err" THEN "Err"
                           ELSE IF ev # <<>> THEN AfterSend(SendResult(Receivers), "Ok")
                           ELSE "Ok")
        /\ call' = [call EXCEPT !["sub"] = IdleCall]
        /\ subPc' = AfterHandled(r.res)
        /\ subEv' = <<>>
        /\ UNCHANGED <<dbVars, sideVars, nodeVars, streamVars, mainPc, syncList,
                       outcome, faulted, req>>

AfterSleepReturn == "returned"

\* After the sleep the outer loop runs again.
AfterSleep == "subscribe"

\* tokio::time::sleep(5 s).await is over.
Sleep ==
    /\ subPc = "sleep"
    /\ subPc' = AfterSleep
    /\ UNCHANGED <<dbVars, call, sideVars, nodeVars, streamVars, mainPc, syncList,
                   subEv, outcome, faulted, bus, hist, req>>

(* ------------------------------------------------------------------ *)
(* api::create_invoice and create_invoice_fn                           *)
(* ------------------------------------------------------------------ *)

AfterCreateInserts(s, h) == InsertRow(s, NewTransaction("invoice", h, "pending")).store

\* "Do not insert here" / "No DB insert here": the handler returns the
\* node's invoice and leaves the table to the subscription task.
AfterCreate(s, h) == s

\* if amount_sats <= 0 { return Err(..) }: BadRequest on the HTTP path, the
\* AppError "Invalid amount" on the server-function path.
Rejected(path) == IF path = "api" THEN "BadRequest" ELSE "InvalidAmount"

\* A create-invoice submission arrives: a non-positive amount is rejected,
\* otherwise lnd_receive.create_invoice(..) is called.
CreateStart ==
    /\ mainPc = "serving"
    /\ inv.pc \in {"new", "done"}
    /\ inputs < MaxInputs
    /\ inputs' = inputs + 1
    /\ \E path \in {"api", "fn"}, positive \in BOOLEAN :
          inv' = IF positive
                 THEN [IdleInv EXCEPT !.pc = "rpc", !.path = path]
                 ELSE [IdleInv EXCEPT !.pc = "done", !.path = path, !.out = Rejected(path)]
    /\ UNCHANGED <<dbVars, call, gateCalls, rx, lnd, pureVars, nodeInv, nodeSeen,
                   streamVars, reconVars, bus, hist, req>>

\* The node serves add_invoice: it adds the invoice, Open, and sends the
\* update to the open subscription; or it fails the call.
CreateAtNode ==
    /\ inv.pc = "rpc"
    /\ \/ \E h \in Hashes :
             /\ nodeInv[h] = -1
             /\ nodeInv' = [nodeInv EXCEPT ![h] = Open]
             /\ nodeSeen' = nodeSeen \cup {<<h, Open>>}
             /\ stream' = IF streamOpen THEN Append(stream, <<"invoice", h, Open>>)
                          ELSE stream
             /\ inv' = [inv EXCEPT !.pc = "answered", !.hash = h]
       \/ /\ inv' = [inv EXCEPT !.pc = "answered", !.out = "LndError"]
          /\ UNCHANGED <<nodeInv, nodeSeen, stream>>
    /\ UNCHANGED <<dbVars, call, gateCalls, rx, lnd, pureVars, inputs, streamOpen,
                   reconVars, bus, hist, req>>

\* create_invoice(..).await is over: the error is returned, or the response
\* with the node's payment request and hash.
CreateReturn ==
    /\ inv.pc = "answered"
    /\ inv' = [inv EXCEPT !.pc = "done",
                          !.out = IF inv.out = "LndError" THEN "LndError" ELSE "Created"]
    /\ store' = IF inv.out = "LndError" THEN store ELSE AfterCreate(store, inv.hash)
    /\ UNCHANGED <<lastWrite, trans, call, gateCalls, rx, lnd, pureVars, nodeVars,
                   streamVars, reconVars, bus, hist, req>>

(* ------------------------------------------------------------------ *)
(* api::pay_invoice and pay_invoice_fn                                 *)
(* ------------------------------------------------------------------ *)

\* The handler returns before it has issued send_payment.
Done(p, path, h, out) ==
    req' = [req EXCEPT ![p] = [IdleReq EXCEPT !.pc = "done", !.path = path,
                                              !.hash = h, !.out = out]]

\* The handler returns after send_payment, which the node answered with ans.
Returned(p, out, ans, upd) ==
    req' = [req EXCEPT ![p] = [req[p] EXCEPT !.pc = "done", !.out = out, !.ans = ans,
                                             !.sent = TRUE, !.upd = upd]]

CreatedIgnoringError(poolOk, inserted) == poolOk

\* create_transaction(..).await?: the handler goes on only with Ok.
Created(poolOk, inserted) == poolOk /\ inserted

\* A submission arrives: on the REST path an empty payment_request is refused.
PayStart(p) ==
    /\ mainPc = "serving"
    /\ req[p].pc = "new"
    /\ inputs < MaxInputs
    /\ inputs' = inputs + 1
    /\ \A q \in Reqs : q < p => req[q].pc # "new"
    /\ \E path \in {"api", "fn"}, h \in Hashes, empty \in BOOLEAN :
          IF path = "api" /\ empty
          THEN Done(p, path, "-", "BadRequest")
          ELSE /\ ~empty
               /\ req' = [req EXCEPT ![p] = [IdleReq EXCEPT !.pc = "decode",
                                                        !.path = path, !.hash = h]]
    /\ UNCHANGED <<dbVars, call, sideVars, nodeInv, nodeSeen, streamVars, reconVars,
                   bus, hist>>

\* lnd_send.decode_payment_request(..).await
PayDecode(p) ==
    LET r == req[p]
    IN  /\ r.pc = "decode"
        /\ \/ req' = [req EXCEPT ![p].pc = IF r.path = "api" THEN "check" ELSE "create"]
           \/ Done(p, r.path, r.hash, "LndError")
        /\ UNCHANGED <<dbVars, call, sideVars, nodeVars, streamVars, reconVars, bus, hist>>

ExistingUnlessFailed(s, k, h) == HasKey(s, k, h) /\ StatusOf(s, k, h) # "failed"

\* get_transaction_by_hash(pool, tx_type, hash) ... is_some(): a row of the
\* key exists, whatever its status.
Existing(s, k, h) == HasKey(s, k, h)

\* api::pay_invoice: get_transaction_by_hash(Payment, hash), DuplicatePayment
\* when a record exists.
PayCheck(p) ==
    LET r == req[p]
    IN  /\ r.pc = "check"
        /\ \E poolOk \in BOOLEAN :
              IF ~poolOk THEN Done(p, r.path, r.hash, "DbError")
              ELSE IF Existing(store, "payment", r.hash)
                   THEN Done(p, r.path, r.hash, "DuplicatePayment")
                   ELSE req' = [req EXCEPT ![p].pc = "create"]
        /\ UNCHANGED <<dbVars, call, sideVars, nodeVars, streamVars, reconVars, bus, hist>>

\* create_transaction(pool, new_tx).await? with the Pending Payment record.
PayCreate(p) ==
    LET r == req[p]
        new == NewTransaction("payment", r.hash, "pending")
        n == InsertRow(store, new)
    IN  /\ r.pc = "create"
        /\ \E poolOk \in BOOLEAN :
              IF Created(poolOk, n.ok)
              THEN /\ store' = n.store
                   /\ Wrote("create_transaction", new.kind, new.hash,
                            IF n.ok THEN "absent" ELSE new.status, new.status)
                   /\ call' = Observe(call, n.store)
                   /\ req' = [req EXCEPT ![p].pc = "send"]
              ELSE /\ Done(p, r.path, r.hash, "DbError")
                   /\ UNCHANGED <<dbVars, call>>
        /\ UNCHANGED <<sideVars, nodeVars, streamVars, reconVars, bus, hist>>

\* lnd_send.send_payment(..).await: an RPC error, or the node's answer, which
\* carries a payment_error or not.  pay_invoice_fn returns on a payment_error.
PaySend(p) ==
    LET r == req[p]
    IN  /\ r.pc = "send"
        /\ \E ans \in {"rpc_error", "payment_error", "paid"} :
              IF ans = "rpc_error" THEN Returned(p, "LndError", ans, "-")
              ELSE IF ans = "payment_error" /\ r.path = "fn"
                   THEN Returned(p, "PaymentFailed", ans, "-")
                   ELSE req' = [req EXCEPT ![p].pc = "update", ![p].ans = ans,
                                           ![p].sent = TRUE]
        /\ UNCHANGED <<dbVars, call, sideVars, nodeVars, streamVars, reconVars, bus, hist>>

\* update_transaction_status(..).await: to Failed, its result dropped, or to
\* Succeeded, and then PaymentSucceeded is broadcast.
PayUpdate(p) ==
    LET r == req[p]
        st == IF r.ans = "paid" THEN "succeeded" ELSE "failed"
        u == UpdateStatus(store, "payment", r.hash, st)
    IN  /\ r.pc = "update"
        /\ \E poolOk \in BOOLEAN :
              IF poolOk /\ u.hit
              THEN /\ store' = u.store
                   /\ Wrote("update_transaction_status", "payment", r.hash,
                            StatusOf(store, "payment", r.hash), st)
                   /\ call' = Observe(call, u.store)
                   /\ IF r.ans = "paid"
                      THEN /\ bus' = bus \o Sent(<<[type |-> "PaymentSucceeded",
                                        tx |-> NewTransaction("payment", r.hash, st)]>>)
                           /\ Returned(p, AfterSend(SendResult(Receivers), "Ok"),
                                       r.ans, "ok")
                      ELSE /\ bus' = bus
                           /\ Returned(p, "PaymentFailed", r.ans, "ok")
              ELSE /\ Returned(p, IF r.ans = "paid" THEN "DbError" ELSE "PaymentFailed",
                               r.ans, "failed")
                   /\ UNCHANGED <<dbVars, call, bus>>
        /\ UNCHANGED <<sideVars, nodeVars, streamVars, reconVars, hist>>

(* ------------------------------------------------------------------ *)
(* sse_handler and the broadcast channel                               *)
(* ------------------------------------------------------------------ *)

SseFilterSettledOnly(e) == e.type = "InvoiceSettled"

\* filter_map: every event received is forwarded as an SSE data item.
SseFilter(e) == TRUE

AfterLagClose(pos) == 0

\* Err(_) => None: a lag error is dropped and the stream goes on from the
\* oldest event the channel retains.
AfterLag(pos) == pos

\* The oldest event the channel retains.
Oldest == IF Len(bus) > BusCapacity THEN Len(bus) - BusCapacity + 1 ELSE 1

\* A client connects: broadcast_tx.subscribe() gives a receiver that starts
\* after the events sent so far.
SseSubscribe(c) ==
    /\ mainPc = "serving"
    /\ rx[c].pos = 0
    /\ rx[c].start = 0
    /\ c = "s2" => rx["s1"].start > 0
    /\ rx' = [rx EXCEPT ![c] = [pos |-> Len(bus) + 1, start |-> Len(bus) + 1,
                                 got |-> <<>>, lag |-> 0]]
    /\ UNCHANGED <<dbVars, call, gateCalls, nodeVars, streamVars, reconVars, bus, hist,
                   req, lnd, pureVars, inv>>

\* The client's stream is polled with an event to read: the receiver yields
\* the next event, or a lag error when the channel has dropped it.
SseRecv(c) ==
    LET r == rx[c]
    IN  /\ r.pos > 0
        /\ r.pos <= Len(bus)
        /\ rx' = [rx EXCEPT ![c] =
                     IF r.pos < Oldest
                     THEN [r EXCEPT !.pos = AfterLag(Oldest), !.lag = r.lag + 1]
                     ELSE [r EXCEPT !.pos = r.pos + 1,
                                    !.got = IF SseFilter(bus[r.pos])
                                            THEN Append(r.got, r.pos) ELSE r.got]]
        /\ UNCHANGED <<dbVars, call, gateCalls, nodeVars, streamVars, reconVars, bus,
                       hist, req, lnd, pureVars, inv>>

ReconNext ==
    \/ \E h \in Hashes : NodeChange(h)
    \/ \E h \in Hashes : NodeRedeliver(h)
    \/ StreamBreak
    \/ SyncList
    \/ SyncUpsert
    \/ SyncTally
    \/ SyncDone
    \/ Spawn
    \/ Subscribe
    \/ StreamInvoice
    \/ StreamOver
    \/ Handled
    \/ Sleep
    \/ \E c \in ProgCallers : UpsertUpdate(c)
    \/ \E c \in ProgCallers : UpsertSelect(c)
    \/ \E c \in ProgCallers : UpsertInsert(c)

Next ==
    \/ ReconNext
    \/ \E p \in Reqs : PayStart(p)
    \/ \E p \in Reqs : PayDecode(p)
    \/ \E p \in Reqs : PayCheck(p)
    \/ \E p \in Reqs : PayCreate(p)
    \/ \E p \in Reqs : PaySend(p)
    \/ \E p \in Reqs : PayUpdate(p)

\* The server: the node, the startup sequence, the subscription task and the
\* pay-invoice handlers.
Spec == Init /\ [][Next]_vars

InvoiceNext ==
    \/ ReconNext
    \/ CreateStart
    \/ CreateAtNode
    \/ CreateReturn

\* The node, the startup sequence and the subscription task with the
\* create-invoice handler.
InvoiceSpec == Init /\ [][InvoiceNext]_vars

BusNext ==
    \/ ReconNext
    \/ \E c \in Subs : SseSubscribe(c)
    \/ \E c \in Subs : SseRecv(c)

\* The node, the startup sequence and the subscription task with SSE clients,
\* when no pay-invoice submission arrives.
BusSpec == Init /\ [][BusNext]_vars

PubNext ==
    \/ \E h \in Hashes : NodeChange(h)
    \/ \E h \in Hashes : NodeRedeliver(h)
    \/ SyncList
    \/ SyncUpsert
    \/ SyncTally
    \/ SyncDone
    \/ Spawn
    \/ Subscribe
    \/ StreamInvoice
    \/ Handled
    \/ \E c \in ProgCallers : UpsertUpdate(c)
    \/ \E c \in ProgCallers : UpsertSelect(c)
    \/ \E c \in ProgCallers : UpsertInsert(c)
    \/ \E p \in Reqs : PayStart(p)
    \/ \E p \in Reqs : PayDecode(p)
    \/ \E p \in Reqs : PayCheck(p)
    \/ \E p \in Reqs : PayCreate(p)
    \/ \E p \in Reqs : PaySend(p)
    \/ \E p \in Reqs : PayUpdate(p)
    \/ SseSubscribe("s1")
    \/ SseRecv("s1")

\* The server with one SSE client, while the subscription stream stays open
\* (the reconnect loop is in Spec and FairSpec).
PubSpec == Init /\ [][PubNext]_vars

GateNext ==
    \/ \E c \in GateCallers : GateBegin(c)
    \/ \E c \in GateCallers : UpsertUpdate(c)
    \/ \E c \in GateCallers : UpsertSelect(c)
    \/ \E c \in GateCallers : UpsertInsert(c)
    \/ \E c \in GateCallers : GateReturn(c)

\* upsert_transaction under concurrent callers.
GateSpec == Init /\ [][GateNext]_vars

DbNext ==
    \/ GateNext
    \/ GateCreate
    \/ GateUpdateStatus

\* upsert_transaction, create_transaction and update_transaction_status under
\* concurrent callers.
DbSpec == Init /\ [][DbNext]_vars

\* lnd_state_to_tx_status is given any state code.
MapInit ==
    /\ store = <<>>
    /\ lastWrite = NoWrite
    /\ trans = [k \in Keys |-> 0]
    /\ call = [c \in Callers |-> IdleCall]
    /\ gateCalls = 0
    /\ nodeInv = [h \in ListedHashes |-> -1]
    /\ nodeSeen = {}
    /\ inputs = 0
    /\ stream = <<>>
    /\ streamOpen = FALSE
    /\ mainPc = "list"
    /\ syncList = <<>>
    /\ subPc = "off"
    /\ subEv = <<>>
    /\ outcome = "-"
    /\ faulted = FALSE
    /\ bus = <<>>
    /\ hist = <<>>
    /\ req = [p \in Reqs |-> IdleReq]
    /\ rx = [c \in Subs |-> NoRx]
    /\ mapIn \in -MaxCode..MaxCode
    /\ mapOut = "-"
    /\ lnd = IdleLnd
    /\ fnIn = 0
    /\ fnOut = <<>>
    /\ inv = IdleInv

MapApply ==
    /\ mapOut = "-"
    /\ mapOut' = lnd_state_to_tx_status(mapIn)
    /\ UNCHANGED <<dbVars, call, gateCalls, nodeVars, streamVars, reconVars, bus, hist,
                   req, rx, mapIn, lnd, fnIn, fnOut, inv>>

MapSpec == MapInit /\ [][MapApply]_vars

\* The server starts against a node that holds invoices already.
SyncInit ==
    /\ store = <<>>
    /\ lastWrite = NoWrite
    /\ trans = [k \in Keys |-> 0]
    /\ call = [c \in Callers |-> IdleCall]
    /\ gateCalls = 0
    /\ nodeInv \in [ListedHashes -> {-1, Open, Settled, Canceled, Accepted}]
    /\ nodeSeen = {}
    /\ inputs = 0
    /\ stream = <<>>
    /\ streamOpen = FALSE
    /\ mainPc = "list"
    /\ syncList = <<>>
    /\ subPc = "off"
    /\ subEv = <<>>
    /\ outcome = "-"
    /\ faulted = FALSE
    /\ bus = <<>>
    /\ hist = <<>>
    /\ req = [p \in Reqs |-> IdleReq]
    /\ rx = [c \in Subs |-> NoRx]
    /\ mapIn = 0
    /\ mapOut = "-"
    /\ lnd = IdleLnd
    /\ fnIn = 0
    /\ fnOut = <<>>
    /\ inv = IdleInv

SyncNext ==
    \/ SyncList
    \/ SyncUpsert
    \/ SyncTally
    \/ SyncDone
    \/ Spawn
    \/ UpsertUpdate("sync")
    \/ UpsertSelect("sync")
    \/ UpsertInsert("sync")

\* The startup sequence alone, up to the spawn of the subscription task: main
\* awaits each step, and a call to the node or to the database returns.
SyncSpec ==
    /\ SyncInit /\ [][SyncNext]_vars
    /\ WF_vars(SyncList) /\ WF_vars(SyncUpsert) /\ WF_vars(SyncTally)
    /\ WF_vars(SyncDone) /\ WF_vars(Spawn)
    /\ WF_vars(UpsertUpdate("sync")) /\ WF_vars(UpsertSelect("sync"))
    /\ WF_vars(UpsertInsert("sync"))

\* The node, the startup sequence and the subscription task, when no
\* pay-invoice submission arrives, under the scheduling the runtime gives: a
\* task that can run is run, and a call to the node or to the database
\* returns.  Nothing makes the node send an update or end a stream.
FairSpec ==
    /\ Init /\ [][ReconNext]_vars
    /\ WF_vars(SyncList) /\ WF_vars(SyncUpsert) /\ WF_vars(SyncTally)
    /\ WF_vars(SyncDone) /\ WF_vars(Spawn)
    /\ WF_vars(Subscribe) /\ WF_vars(StreamInvoice) /\ WF_vars(StreamOver)
    /\ WF_vars(Handled) /\ WF_vars(Sleep)
    /\ \A c \in ProgCallers :
          WF_vars(UpsertUpdate(c)) /\ WF_vars(UpsertSelect(c)) /\ WF_vars(UpsertInsert(c))

(* ------------------------------------------------------------------ *)
(* lnd.rs: LightningClients, one node connection behind a lock         *)
(* ------------------------------------------------------------------ *)

LndOps == {"create_invoice", "decode_payment_request", "send_payment"}

GuardDropped(c) == "-"

\* let mut client = self.client.lock().await: the guard is a local of the
\* method, so the lock is held while the call is awaited.
GuardHeld(c) == c

\* A task calls a method and awaits the lock.
LndCall(c, op) ==
    /\ lnd.pc[c] = "idle"
    /\ lnd' = [lnd EXCEPT !.pc[c] = "lock", !.op[c] = op, !.res[c] = "-"]
    /\ UNCHANGED <<dbVars, call, gateCalls, rx, pureVars, inv, nodeVars, streamVars,
                   reconVars, bus, hist, req>>

\* The lock is granted when no guard is alive; the method builds the request
\* and issues the call.
LndIssue(c) ==
    /\ lnd.pc[c] = "lock"
    /\ lnd.holder = "-"
    /\ lnd' = [lnd EXCEPT !.pc[c] = "rpc", !.holder = GuardHeld(c)]
    /\ UNCHANGED <<dbVars, call, gateCalls, rx, pureVars, inv, nodeVars, streamVars,
                   reconVars, bus, hist, req>>

\* The node answers, the method returns Ok or Err and its guard is dropped.
LndRespond(c) ==
    /\ lnd.pc[c] = "rpc"
    /\ \E res \in {"Ok", "Err"} :
          lnd' = [lnd EXCEPT !.pc[c] = "idle", !.res[c] = res,
                             !.holder = IF lnd.holder = c THEN "-" ELSE lnd.holder]
    /\ UNCHANGED <<dbVars, call, gateCalls, rx, pureVars, inv, nodeVars, streamVars,
                   reconVars, bus, hist, req>>

LndNext ==
    \/ \E c \in LndCallers, op \in LndOps : LndCall(c, op)
    \/ \E c \in LndCallers : LndIssue(c)
    \/ \E c \in LndCallers : LndRespond(c)

\* Concurrent callers of one node connection.
LndSpec == Init /\ [][LndNext]_vars

(* ------------------------------------------------------------------ *)
(* components/functions.rs: the invoice decoder, u64 arithmetic         *)
(* ------------------------------------------------------------------ *)

\* A u64 is written as its decimal digits, most significant first, without
\* leading zeros; zero is <<0>>.
U64Max == <<1, 8, 4, 4, 6, 7, 4, 4, 0, 7, 3, 7, 0, 9, 5, 5, 1, 6, 1, 5>>

Front(s) == IF s = <<>> THEN <<>> ELSE SubSeq(s, 1, Len(s) - 1)

RECURSIVE Strip(_)
Strip(ds) == IF Len(ds) > 1 /\ ds[1] = 0 THEN Strip(Tail(ds)) ELSE ds

RECURSIVE LexLeq(_, _)
LexLeq(a, b) ==
    IF a = <<>> THEN TRUE
    ELSE IF a[1] # b[1] THEN a[1] < b[1]
    ELSE LexLeq(Tail(a), Tail(b))

\* a <= b, for two numbers without leading zeros.
Leq(a, b) == IF Len(a) # Len(b) THEN Len(a) < Len(b) ELSE LexLeq(a, b)

RECURSIVE AddC(_, _, _)
AddC(a, b, carry) ==
    IF a = <<>> /\ b = <<>> THEN (IF carry = 0 THEN <<>> ELSE <<carry>>)
    ELSE LET da == IF a = <<>> THEN 0 ELSE a[Len(a)]
             db == IF b = <<>> THEN 0 ELSE b[Len(b)]
             s == da + db + carry
             lo == s % 10
         IN  IF lo = s THEN AddC(Front(a), Front(b), 0) \o <<lo>>
             ELSE AddC(Front(a), Front(b), 1) \o <<lo>>

RECURSIVE MulDigitC(_, _, _)
MulDigitC(a, d, carry) ==
    IF a = <<>> THEN (IF carry = 0 THEN <<>> ELSE <<carry>>)
    ELSE LET s == a[Len(a)] * d + carry
             hi == s \div 10
         IN  IF hi = 0 THEN MulDigitC(Front(a), d, 0) \o <<s>>
             ELSE MulDigitC(Front(a), d, hi) \o <<s % 10>>

\* The product of two numbers, by long multiplication.
RECURSIVE Mul(_, _)
Mul(a, b) ==
    IF b = <<>> THEN <<0>>
    ELSE Strip(AddC(Mul(a, Front(b)) \o <<0>>, MulDigitC(a, b[Len(b)], 0), 0))

saturating_mul(v, c) == IF Leq(Mul(v, c), U64Max) THEN Mul(v, c) ELSE U64Max

\* u64::checked_mul: the product, or None (<<>>) when it does not fit 64 bits.
checked_mul(v, c) == IF Leq(Mul(v, c), U64Max) THEN Mul(v, c) ELSE <<>>

Div10Keep(v) == v

\* value % 10 and value / 10
Mod10(v) == v[Len(v)]

Div10(v) == IF Len(v) = 1 THEN <<0>> ELSE Front(v)

DigitChars == <<"0", "1", "2", "3", "4", "5", "6", "7", "8", "9">>

is_ascii_digit(ch) == \E i \in DOMAIN DigitChars : DigitChars[i] = ch

DigitValue(ch) == (CHOOSE i \in DOMAIN DigitChars : DigitChars[i] = ch) - 1

\* str::parse::<u64> of a non-empty string: Err (<<>>) on a character that is
\* no digit and on a number above u64::MAX.
ParseU64(chars) ==
    IF \E i \in DOMAIN chars : ~is_ascii_digit(chars[i]) THEN <<>>
    ELSE LET n == Strip([i \in DOMAIN chars |-> DigitValue(chars[i])])
         IN  IF Leq(n, U64Max) THEN n ELSE <<>>

(* ------------------------------------------------------------------ *)
(* components/functions.rs: parse_amount_msats                         *)
(* ------------------------------------------------------------------ *)

\* Err(e), Ok(None) and Ok(Some(msats)) of parse_amount_msats.
AmountErr(e) == [err |-> e, some |-> FALSE, amount |-> <<>>]

AmountNone == [err |-> "-", some |-> FALSE, amount |-> <<>>]

AmountSome(msats) == [err |-> "-", some |-> TRUE, amount |-> msats]

MsatsPerMilliShort == <<1, 0, 0, 0, 0, 0, 0, 0>>

\* The per-multiplier constants: 100_000_000_000, 100_000_000, 100_000, 100.
MsatsPerBtc == <<1, 0, 0, 0, 0, 0, 0, 0, 0, 0, 0, 0>>

MsatsPerMilli == <<1, 0, 0, 0, 0, 0, 0, 0, 0>>

MsatsPerMicro == <<1, 0, 0, 0, 0, 0>>

MsatsPerNano == <<1, 0, 0>>

ScalePicoTruncate(value) == AmountSome(Div10(value))

\* Some('p'): a value that is no multiple of 10 is refused.
ScalePico(value) ==
    IF Mod10(value) # 0 THEN AmountErr("SubMillisatoshi") ELSE AmountSome(Div10(value))

\* value.checked_mul(c).ok_or(AmountOverflow)?
ScaleBy(value, c) ==
    IF checked_mul(value, c) = <<>> THEN AmountErr("AmountOverflow")
    ELSE AmountSome(checked_mul(value, c))

Multipliers == {"m", "u", "n", "p"}

\* rest.find(|c| c.is_ascii_digit()): the first digit's position, 0 for None.
FirstDigit(rest) ==
    IF \E i \in DOMAIN rest : is_ascii_digit(rest[i])
    THEN CHOOSE i \in DOMAIN rest :
            /\ is_ascii_digit(rest[i])
            /\ \A j \in 1..(i - 1) : ~is_ascii_digit(rest[j])
    ELSE 0

parse_amount_msats(hrp) ==
    IF ~(Len(hrp) >= 2 /\ hrp[1] = "l" /\ hrp[2] = "n") THEN AmountErr("InvalidPrefix")
    ELSE LET rest == SubSeq(hrp, 3, Len(hrp))
             amount_start == FirstDigit(rest)
             amount_part == SubSeq(rest, amount_start, Len(rest))
             last == amount_part[Len(amount_part)]
             number_str == IF last \in Multipliers THEN Front(amount_part) ELSE amount_part
             multiplier == IF last \in Multipliers THEN last ELSE "-"
             value == ParseU64(number_str)
         IN  IF amount_start = 0 THEN AmountNone
             ELSE IF number_str = <<>> THEN AmountErr("InvalidAmount")
             ELSE IF value = <<>> THEN AmountErr("InvalidAmount")
             ELSE CASE multiplier = "-" -> ScaleBy(value, MsatsPerBtc)
                    [] multiplier = "m" -> ScaleBy(value, MsatsPerMilli)
                    [] multiplier = "u" -> ScaleBy(value, MsatsPerMicro)
                    [] multiplier = "n" -> ScaleBy(value, MsatsPerNano)
                    [] multiplier = "p" -> ScalePico(value)

\* The inputs: a prefix, the characters of a number and a suffix.
Prefixes ==
    {<<"l", "n", "b", "c">>, <<"l", "n", "t", "b">>, <<"l", "n">>,
     <<"l", "x", "b", "c">>, <<"l">>}

Suffixes == {<<>>, <<"m">>, <<"u">>, <<"n">>, <<"p">>, <<"x">>, <<"m", "5">>}

Chars(ds) == [i \in DOMAIN ds |-> DigitChars[ds[i] + 1]]

\* Numbers at the edge of 64 bits, one pair for each multiplier.
EdgeNumbers ==
    {<<1, 8, 4, 4, 6, 7, 4, 4, 0>>, <<1, 8, 4, 4, 6, 7, 4, 4, 1>>,
     <<1, 8, 4, 4, 6, 7, 4, 4, 0, 7, 3, 7>>, <<1, 8, 4, 4, 6, 7, 4, 4, 0, 7, 3, 8>>,
     <<1, 8, 4, 4, 6, 7, 4, 4, 0, 7, 3, 7, 0, 9, 5>>,
     <<1, 8, 4, 4, 6, 7, 4, 4, 0, 7, 3, 7, 0, 9, 6>>,
     <<1, 8, 4, 4, 6, 7, 4, 4, 0, 7, 3, 7, 0, 9, 5, 5, 1, 6>>,
     <<1, 8, 4, 4, 6, 7, 4, 4, 0, 7, 3, 7, 0, 9, 5, 5, 1, 7>>,
     <<1, 8, 4, 4, 6, 7, 4, 4, 0, 7, 3, 7, 0, 9, 5, 5, 1, 6, 1, 0>>,
     U64Max,
     <<1, 8, 4, 4, 6, 7, 4, 4, 0, 7, 3, 7, 0, 9, 5, 5, 1, 6, 1, 6>>,
     <<9, 9, 9, 9, 9, 9, 9, 9, 9, 9, 9, 9, 9, 9, 9, 9, 9, 9, 9, 9, 9>>}

\* The numbers of up to n digits over 0, 1, 2 and 5.
SmallNumbers(n) == UNION {[1..k -> {0, 1, 2, 5}] : k \in 0..n}

AmountInputs(n) ==
    [prefix : Prefixes, number : SmallNumbers(n) \cup EdgeNumbers, suffix : Suffixes]

\* The human-readable part an input spells.
HrpOf(in) == in.prefix \o Chars(in.number) \o in.suffix

\* The state of a run that applies one function of the decoder to one input.
PureInit(ins) ==
    /\ store = <<>>
    /\ lastWrite = NoWrite
    /\ trans = [k \in Keys |-> 0]
    /\ call = [c \in Callers |-> IdleCall]
    /\ gateCalls = 0
    /\ nodeInv = [h \in ListedHashes |-> -1]
    /\ nodeSeen = {}
    /\ inputs = 0
    /\ stream = <<>>
    /\ streamOpen = FALSE
    /\ mainPc = "list"
    /\ syncList = <<>>
    /\ subPc = "off"
    /\ subEv = <<>>
    /\ outcome = "-"
    /\ faulted = FALSE
    /\ bus = <<>>
    /\ hist = <<>>
    /\ req = [p \in Reqs |-> IdleReq]
    /\ rx = [c \in Subs |-> NoRx]
    /\ mapIn = 0
    /\ mapOut = "-"
    /\ lnd = IdleLnd
    /\ fnIn \in ins
    /\ fnOut = <<>>
    /\ inv = IdleInv

AmountApply ==
    /\ fnOut = <<>>
    /\ fnOut' = <<parse_amount_msats(HrpOf(fnIn))>>
    /\ UNCHANGED <<dbVars, call, nodeVars, streamVars, reconVars, bus, hist, req,
                   gateCalls, rx, lnd, mapIn, mapOut, fnIn, inv>>

\* parse_amount_msats applied to one human-readable part.
AmountSpec == PureInit(AmountInputs(MaxDigits)) /\ [][AmountApply]_vars

(* ------------------------------------------------------------------ *)
(* components/functions.rs: five_bit_to_bytes                          *)
(* ------------------------------------------------------------------ *)

\* The five bits of a bech32::u5, most significant first.
Bits5(v) == <<(v \div 16) % 2, (v \div 8) % 2, (v \div 4) % 2, (v \div 2) % 2, v % 2>>

\* A u32 is written as its 32 bits, most significant first.
Zero32 == [i \in 1..32 |-> 0]

\* (acc << 5) | v: the five highest bits are shifted out.
Shl5Or(acc, v) == SubSeq(acc, 6, 32) \o Bits5(v)

\* ((acc >> bits) & 0xff) as u8
ByteAt(acc, bits) ==
    LET b(i) == acc[25 - bits + i]
    IN  128 * b(0) + 64 * b(1) + 32 * b(2) + 16 * b(3) + 8 * b(4) + 4 * b(5) + 2 * b(6) + b(7)

PaddingUnchecked(acc, bits) == FALSE

\* (acc & ((1u32 << bits) - 1)) != 0
PaddingSet(acc, bits) == \E i \in (33 - bits)..32 : acc[i] = 1

RepackErr(e) == [err |-> e, bytes |-> <<>>]

RepackOk(out) == [err |-> "-", bytes |-> out]

\* while bits >= 8 { bits -= 8; out.push(..) }
RECURSIVE Drain(_, _, _)
Drain(acc, bits, out) ==
    IF bits >= 8 THEN Drain(acc, bits - 8, out \o <<ByteAt(acc, bits - 8)>>)
    ELSE [bits |-> bits, out |-> out]

\* for value in data { .. }, then the check of the bits left over.
RECURSIVE Repack(_, _, _, _)
Repack(data, acc, bits, out) ==
    IF data = <<>>
    THEN IF bits > 0 /\ PaddingSet(acc, bits) THEN RepackErr("InvalidPadding")
         ELSE RepackOk(out)
    ELSE LET d == Drain(Shl5Or(acc, Head(data)), bits + 5, out)
         IN  Repack(Tail(data), Shl5Or(acc, Head(data)), d.bits, d.out)

five_bit_to_bytes(data) == Repack(data, Zero32, 0, <<>>)

\* The symbols given to five_bit_to_bytes: 00000, 10100 and 11111.
RepackSymbols == {0, 20, 31}

RepackInputs(max) == UNION {[1..n -> RepackSymbols] : n \in 0..max}

RepackApply ==
    /\ fnOut = <<>>
    /\ fnOut' = <<five_bit_to_bytes(fnIn)>>
    /\ UNCHANGED <<dbVars, call, nodeVars, streamVars, reconVars, bus, hist, req,
                   gateCalls, rx, lnd, mapIn, mapOut, fnIn, inv>>

\* five_bit_to_bytes applied to one sequence of symbols.
RepackSpec == PureInit(RepackInputs(MaxSymbols)) /\ [][RepackApply]_vars

(* ------------------------------------------------------------------ *)
(* components/functions.rs: decode_tagged_fields                       *)
(* ------------------------------------------------------------------ *)

BECH32_CHARSET ==
    <<"q", "p", "z", "r", "y", "9", "x", "8", "g", "f", "2", "t", "v", "d", "w", "0",
      "s", "3", "j", "n", "5", "4", "k", "h", "c", "e", "6", "m", "u", "a", "7", "l">>

\* The words of the timestamp, skipped by the scan.
TimestampLen == 7

\* The words of the signature and its recovery flag.
SignatureLen == 104

MIN_DATA_LEN == 111

\* let mut expiry_seconds = 3600u64
DefaultExpiry == 3600

\* A u64 is written as its 64 bits, most significant first; n is below 2^31.
U64Bits(n) == [i \in 1..64 |-> IF 64 - i >= 31 THEN 0 ELSE (n \div (2 ^ (64 - i))) % 2]

\* (value << 5) | item: the five highest bits are shifted out.
Shl5Or64(value, item) == SubSeq(value, 6, 64) \o Bits5(item)

\* for item in tag_data { value = (value << 5) | item }
RECURSIVE Fold32(_, _)
Fold32(tag_data, value) ==
    IF tag_data = <<>> THEN value
    ELSE Fold32(Tail(tag_data), Shl5Or64(value, Head(tag_data)))

ExpiryKept(expiry_seconds, tag_data) == expiry_seconds

\* The 'x' arm: expiry_seconds = value.
ExpiryFrom(expiry_seconds, tag_data) == Fold32(tag_data, U64Bits(0))

Continuation(b) == b \in 128..191

\* String::from_utf8: Ok exactly for well-formed UTF-8.
RECURSIVE Utf8Valid(_)
Utf8Valid(bs) ==
    IF bs = <<>> THEN TRUE
    ELSE LET b == bs[1]
             n == Len(bs)
         IN  IF b < 128 THEN Utf8Valid(Tail(bs))
             ELSE IF b \in 194..223
                  THEN n >= 2 /\ Continuation(bs[2]) /\ Utf8Valid(SubSeq(bs, 3, n))
             ELSE IF b \in 224..239
                  THEN /\ n >= 3 /\ Continuation(bs[2]) /\ Continuation(bs[3])
                       /\ (b = 224 => bs[2] >= 160) /\ (b = 237 => bs[2] <= 159)
                       /\ Utf8Valid(SubSeq(bs, 4, n))
             ELSE IF b \in 240..244
                  THEN /\ n >= 4 /\ Continuation(bs[2]) /\ Continuation(bs[3])
                       /\ Continuation(bs[4])
                       /\ (b = 240 => bs[2] >= 144) /\ (b = 244 => bs[2] <= 143)
                       /\ Utf8Valid(SubSeq(bs, 5, n))
             ELSE FALSE

\* Err(e) and Ok((description, expiry_seconds)) of decode_tagged_fields; the
\* description is written as its bytes.
TaggedErr(e) ==
    [err |-> e, has_description |-> FALSE, description |-> <<>>,
     expiry_seconds |-> U64Bits(0)]

TaggedOk(has, description, expiry_seconds) ==
    [err |-> "-", has_description |-> has, description |-> description,
     expiry_seconds |-> expiry_seconds]

LengthMissingOffByOne(index, len) == index >= len

\* if index + 1 >= data.len(), after the tag type has been read
LengthMissing(index, len) == index + 1 >= len

LengthOverflowPastSignature(index, data_len, len) == index + data_len > len + SignatureLen

\* if index + data_len > data.len()
LengthOverflow(index, data_len, len) == index + data_len > len

\* One turn of while index < data.len(); index counts from 0 as in the code,
\* and a read or a slice outside data panics.
RECURSIVE Scan(_, _, _, _, _)
Scan(data, index, has, description, expiry_seconds) ==
    IF ~(index < Len(data)) THEN TaggedOk(has, description, expiry_seconds)
    ELSE IF LengthMissing(index + 1, Len(data)) THEN TaggedErr("TagLengthMissing")
    ELSE IF index + 2 >= Len(data) THEN TaggedErr("panic")
    ELSE LET data_len == data[index + 2] * 32 + data[index + 3]
             from == index + 3
         IN  IF LengthOverflow(from, data_len, Len(data))
             THEN TaggedErr("TagLengthOverflow")
             ELSE IF from + data_len > Len(data) THEN TaggedErr("panic")
             ELSE LET tag_data == SubSeq(data, from + 1, from + data_len)
                      tag_char == BECH32_CHARSET[data[index + 1] + 1]
                      bytes == five_bit_to_bytes(tag_data)
                  IN  IF tag_char = "d"
                      THEN IF bytes.err # "-" THEN TaggedErr(bytes.err)
                           ELSE IF ~Utf8Valid(bytes.bytes)
                                THEN TaggedErr("InvalidDescription")
                           ELSE Scan(data, from + data_len, TRUE, bytes.bytes,
                                     expiry_seconds)
                      ELSE IF tag_char = "x"
                      THEN Scan(data, from + data_len, has, description,
                                ExpiryFrom(expiry_seconds, tag_data))
                      ELSE Scan(data, from + data_len, has, description, expiry_seconds)

decode_tagged_fields(data) ==
    IF Len(data) < TimestampLen THEN TaggedErr("DataTooShort")
    ELSE Scan(data, TimestampLen, FALSE, <<>>, U64Bits(DefaultExpiry))

(* ------------------------------------------------------------------ *)
(* components/functions.rs: decode_payment_request_local               *)
(* ------------------------------------------------------------------ *)

\* An input string is written as what it spells: surrounding white space, a
\* scheme in front, and a body that is empty, no bech32 string ("garbage"),
\* or the bech32 encoding of (hrp, data, variant).
Schemes == {"-", "lightning:", "LIGHTNING:", "Lightning:"}

\* sanitize_payment_request: trim, strip lightning: or LIGHTNING:, trim.  What
\* is left of the scheme, "-" when it was stripped.
sanitize_payment_request(input) ==
    IF input.scheme \in {"lightning:", "LIGHTNING:"} THEN "-" ELSE input.scheme

\* cleaned.is_empty()
CleanedEmpty(input) == sanitize_payment_request(input) = "-" /\ input.body = "empty"

\* bech32::decode(&invoice): Ok for the encoding of (hrp, data, variant) and
\* nothing in front of it, Err otherwise.
Bech32Ok(input) == sanitize_payment_request(input) = "-" /\ input.body = "encoded"

DecodeErr(e) ==
    [err |-> e, amount_msats |-> AmountNone, has_description |-> FALSE,
     description |-> <<>>, expiry_seconds |-> U64Bits(0)]

DecodedInvoice(amount, tagged) ==
    [err |-> "-", amount_msats |-> amount, has_description |-> tagged.has_description,
     description |-> tagged.description, expiry_seconds |-> tagged.expiry_seconds]

decode_payment_request_local(input) ==
    IF CleanedEmpty(input) THEN DecodeErr("Empty")
    ELSE IF ~Bech32Ok(input) THEN DecodeErr("InvalidBech32")
    ELSE IF input.variant # "Bech32" THEN DecodeErr("InvalidVariant")
    ELSE IF Len(input.data) < MIN_DATA_LEN THEN DecodeErr("DataTooShort")
    ELSE LET data_no_sig == SubSeq(input.data, 1, Len(input.data) - SignatureLen)
             tagged == decode_tagged_fields(data_no_sig)
             amount == parse_amount_msats(input.hrp)
         IN  IF tagged.err # "-" THEN DecodeErr(tagged.err)
             ELSE IF amount.err # "-" THEN DecodeErr(amount.err)
             ELSE DecodedInvoice(amount, tagged)

\* The tagged fields of the inputs: expiry (x, 6), description (d, 13) and a
\* type the decoder does not know (p, 1), each with one of these data.
TagDatas == {<<>>, <<1>>, <<12, 4>>, <<31, 4>>, <<12, 31>>, <<1, 0, 8>>}

FieldSet == [tag : {6, 13, 1}, data : TagDatas]

\* The words of a field: its type, its length in two words, its data.
FieldWords(f) == <<f.tag, Len(f.data) \div 32, Len(f.data) % 32>> \o f.data

RECURSIVE Encode(_)
Encode(fields) == IF fields = <<>> THEN <<>> ELSE FieldWords(Head(fields)) \o Encode(Tail(fields))

\* What follows the last whole field: nothing, a type without length, a type
\* with half a length, a length that exceeds the data, the longest length.
Tails == {<<>>, <<6>>, <<6, 0>>, <<6, 0, 2, 1>>, <<13, 31, 31>>}

HrpSet ==
    {<<"l", "n", "b", "c">>, <<"l", "n", "b", "c", "2", "5", "m">>,
     <<"l", "n", "b", "c", "2", "5", "0", "1", "p">>, <<"l", "x">>}

FieldLists(max) == UNION {[1..n -> FieldSet] : n \in 0..max}

\* The data of an encoded body: timestamp, fields, tail and sig trailing words.
DataOf(fields, tail, sig) ==
    [i \in 1..TimestampLen |-> 0] \o Encode(fields) \o tail \o [i \in 1..sig |-> 0]

InputOf(scheme, body, hrp, variant, fields, tail, sig) ==
    [scheme |-> scheme, body |-> body, hrp |-> hrp, variant |-> variant,
     fields |-> fields, tail |-> tail, data |-> DataOf(fields, tail, sig)]

DecodeInputs(max) ==
    {InputOf(s, b, <<>>, "-", <<>>, <<>>, 0) : s \in Schemes, b \in {"empty", "garbage"}}
    \cup {InputOf(s, "encoded", h, v, <<>>, <<>>, sig) :
            s \in Schemes, h \in HrpSet, v \in {"Bech32", "Bech32m"},
            sig \in {0, SignatureLen - 1, SignatureLen}}
    \cup {InputOf("lightning:", "encoded", h, "Bech32", fs, t, SignatureLen) :
            h \in {<<"l", "n", "b", "c", "2", "5", "m">>,
                   <<"l", "n", "b", "c", "2", "5", "0", "1", "p">>},
            fs \in FieldLists(max), t \in Tails}

DecodeApply ==
    /\ fnOut = <<>>
    /\ fnOut' = <<decode_payment_request_local(fnIn)>>
    /\ UNCHANGED <<dbVars, call, nodeVars, streamVars, reconVars, bus, hist, req,
                   gateCalls, rx, lnd, mapIn, mapOut, fnIn, inv>>

\* decode_payment_request_local applied to one input.
DecodeSpec == PureInit(DecodeInputs(MaxFields)) /\ [][DecodeApply]_vars

\* Expiry tags of every length up to max: a leading symbol, then symbols that
\* are all 0 or all 31, then a last symbol.
ExpiryDatas(max) ==
    {<<>>}
    \cup {<<lead>> : lead \in {0, 1, 15, 16, 31}}
    \cup {<<lead>> \o [i \in 1..(n - 2) |-> fill] \o <<last>> :
             lead \in {0, 1, 15, 16, 31}, fill \in {0, 31}, last \in {0, 5},
             n \in 2..max}

\* Payloads whose only tagged field is one expiry tag.
ExpiryInputs(max) ==
    {InputOf("-", "encoded", <<"l", "n", "b", "c">>, "Bech32",
             <<[tag |-> 6, data |-> d]>>, <<>>, SignatureLen) : d \in ExpiryDatas(max)}

\* decode_payment_request_local applied to a payload with one expiry tag.
ExpirySpec == PureInit(ExpiryInputs(MaxExpiryLen)) /\ [][DecodeApply]_vars

(* ------------------------------------------------------------------ *)
(* server/db.rs on rows with every column: upsert_transaction          *)
(* ------------------------------------------------------------------ *)

\* NewTransaction::new: the eight columns a candidate carries, as given.
NewTransactionNew(tx_type, payment_hash, payment_request, amount_sats, description, status, expires_at, node_id) ==
    [kind |-> tx_type, hash |-> payment_hash, payment_request |-> payment_request,
     amount_sats |-> amount_sats, description |-> description, status |-> status,
     expires_at |-> expires_at, node_id |-> node_id]

\* INSERT INTO transactions VALUES (&new_tx) RETURNING: the columns of
\* NewTransaction as given; preimage, fee_sats and failure_reason, which the
\* statement does not list, are NULL ("-", -1), and the two timestamps are the
\* time of the insert.
Inserted(new_tx, now) ==
    [kind |-> new_tx.kind, hash |-> new_tx.hash,
     payment_request |-> new_tx.payment_request, amount_sats |-> new_tx.amount_sats,
     description |-> new_tx.description, status |-> new_tx.status,
     preimage |-> "-", fee_sats |-> -1, failure_reason |-> "-",
     expires_at |-> new_tx.expires_at, node_id |-> new_tx.node_id,
     created_at |-> now, updated_at |-> now]

SetOnUpdateAllColumns(row, new_tx, now) ==
    [Inserted(new_tx, now) EXCEPT !.created_at = row.created_at]

\* .set((status.eq(&new_tx.status), updated_at.eq(Utc::now()))): the two
\* columns the UPDATE of upsert_transaction assigns.
SetOnUpdate(row, new_tx, now) ==
    [row EXCEPT !.status = new_tx.status, !.updated_at = now]

\* upsert_transaction, its statements in sequence on a table nobody else
\* writes meanwhile: the result (Some with the row returned, None, Err), the
\* table afterwards and the statement that decided.
upsert_transaction(s, new_tx, now, poolOk) ==
    LET hit == {i \in KeyRows(s, new_tx.kind, new_tx.hash) : s[i].status # new_tx.status}
        updated == [i \in DOMAIN s |->
                      IF i \in hit THEN SetOnUpdate(s[i], new_tx, now) ELSE s[i]]
        ins == InsertRow(s, Inserted(new_tx, now))
    IN  IF ~poolOk
        THEN [res |-> "Err", tx |-> <<>>, store |-> s, by |-> "pool"]
        ELSE IF hit # {}
        THEN [res |-> "Some", tx |-> <<updated[CHOOSE i \in hit : TRUE]>>,
              store |-> updated, by |-> "update"]
        ELSE IF HasKey(s, new_tx.kind, new_tx.hash)
        THEN [res |-> "None", tx |-> <<>>, store |-> s, by |-> "select"]
        ELSE IF ins.ok
        THEN [res |-> "Some", tx |-> <<ins.store[Len(ins.store)]>>,
              store |-> ins.store, by |-> "insert"]
        ELSE [res |-> "None", tx |-> <<>>, store |-> s, by |-> "insert"]

\* The node identities of the configuration: receive_node_id, send_node_id.
NodeIds == {"receive", "send"}

\* Column values of the inputs, in two variants that differ in every column.
ColumnValues(v) ==
    IF v = 1
    THEN [payment_request |-> "lnbc1", amount_sats |-> 3, description |-> "-",
          preimage |-> "-", fee_sats |-> -1, failure_reason |-> "-",
          expires_at |-> -1, node_id |-> "receive", created_at |-> 1, updated_at |-> 2]
    ELSE [payment_request |-> "lnbc2", amount_sats |-> 4, description |-> "memo",
          preimage |-> "pre", fee_sats |-> 1, failure_reason |-> "why",
          expires_at |-> 50, node_id |-> "send", created_at |-> 3, updated_at |-> 4]

\* A stored row of the inputs.
StoredRow(k, h, st, node, v) ==
    LET c == ColumnValues(v)
    IN  [kind |-> k, hash |-> h, payment_request |-> c.payment_request,
         amount_sats |-> c.amount_sats, description |-> c.description, status |-> st,
         preimage |-> c.preimage, fee_sats |-> c.fee_sats,
         failure_reason |-> c.failure_reason, expires_at |-> c.expires_at,
         node_id |-> node, created_at |-> c.created_at, updated_at |-> c.updated_at]

VariantOf(h) == IF h = "h1" THEN 1 ELSE 2

\* Tables of at most max rows, no two rows with the same key.
Tables(rows, max) ==
    UNION {{t \in [1..n -> rows] :
               \A i, j \in 1..n :
                   (i # j) => (t[i].kind # t[j].kind \/ t[i].hash # t[j].hash)} :
           n \in 0..max}

\* The stored rows given to upsert_transaction: the columns go with the hash.
UpsertRows ==
    {StoredRow(k, h, st, ColumnValues(VariantOf(h)).node_id, VariantOf(h)) :
        k \in TxType, h \in ListedHashes, st \in TxStatus}

\* The candidates given to upsert_transaction: for the key of h1, with the
\* columns of either variant.
Candidates ==
    {NewTransactionNew(k, "h1", ColumnValues(v).payment_request,
                       ColumnValues(v).amount_sats, ColumnValues(v).description, st,
                       ColumnValues(v).expires_at, ColumnValues(v).node_id) :
        k \in TxType, st \in TxStatus, v \in {1, 2}}

\* Utc::now() of the inputs: later than every stored timestamp.
Now == 9

UpsertInputs(max) ==
    [store : Tables(UpsertRows, max), new_tx : Candidates, poolOk : BOOLEAN]

UpsertApply ==
    /\ fnOut = <<>>
    /\ fnOut' = <<upsert_transaction(fnIn.store, fnIn.new_tx, Now, fnIn.poolOk)>>
    /\ UNCHANGED <<dbVars, call, nodeVars, streamVars, reconVars, bus, hist, req,
                   gateCalls, rx, lnd, mapIn, mapOut, fnIn, inv>>

\* upsert_transaction applied to one table and one candidate.
UpsertSpec == PureInit(UpsertInputs(MaxRows)) /\ [][UpsertApply]_vars

(* ------------------------------------------------------------------ *)
(* server/db.rs: get_balance_summary, and the balance endpoints         *)
(* ------------------------------------------------------------------ *)

RECURSIVE SumOver(_, _)
SumOver(s, idx) ==
    IF idx = {} THEN 0
    ELSE LET i == CHOOSE j \in idx : TRUE
         IN  s[i].amount_sats + SumOver(s, idx \ {i})

\* SELECT SUM(amount_sats) WHERE node_id = .. AND tx_type = .. AND status IN
\* ..: NULL (<<>>) when no row is selected.
SumAmount(s, node_id, k, statuses) ==
    LET idx == {i \in DOMAIN s :
                   s[i].node_id = node_id /\ s[i].kind = k /\ s[i].status \in statuses}
    IN  IF idx = {} THEN <<>> ELSE <<SumOver(s, idx)>>

\* SELECT MAX(updated_at) WHERE node_id = ..
MaxUpdated(s, node_id) ==
    LET ts == {s[i].updated_at : i \in {j \in DOMAIN s : s[j].node_id = node_id}}
    IN  IF ts = {} THEN <<>> ELSE <<CHOOSE t \in ts : \A u \in ts : u <= t>>

\* Option::unwrap_or
unwrap_or(opt, default) == IF opt = <<>> THEN default ELSE opt[1]

ReceivedStatusesSucceededOnly == {"succeeded"}

\* status.eq_any([Pending, Succeeded]) of the received aggregate.
ReceivedStatuses == {"pending", "succeeded"}

PaidStatusesWithPending == {"pending", "succeeded"}

\* status.eq(Succeeded) of the paid aggregate.
PaidStatuses == {"succeeded"}

BalanceErr ==
    [err |-> "DbError", received_sats |-> 0, paid_sats |-> 0,
     pending_received_sats |-> 0, pending_paid_sats |-> 0, last_updated |-> 0]

\* get_balance_summary: the four sums and the latest update of either node.
get_balance_summary(s, receive_node_id, send_node_id, now, poolOk) ==
    LET a == MaxUpdated(s, receive_node_id)
        b == MaxUpdated(s, send_node_id)
        last_updated == IF a # <<>> /\ b # <<>>
                        THEN <<IF a[1] >= b[1] THEN a[1] ELSE b[1]>>
                        ELSE IF a # <<>> THEN a ELSE b
    IN  IF ~poolOk THEN BalanceErr
        ELSE [err |-> "-",
              received_sats |->
                  unwrap_or(SumAmount(s, receive_node_id, "invoice", ReceivedStatuses), 0),
              paid_sats |->
                  unwrap_or(SumAmount(s, send_node_id, "payment", PaidStatuses), 0),
              pending_received_sats |->
                  unwrap_or(SumAmount(s, receive_node_id, "invoice", {"pending"}), 0),
              pending_paid_sats |->
                  unwrap_or(SumAmount(s, send_node_id, "payment", {"pending"}), 0),
              last_updated |-> unwrap_or(last_updated, now)]

\* Balance::total_balance of models.rs.
total_balance(balance) == balance.received_sats - balance.paid_sats

\* BalanceDto { .. } as both endpoints build it, or the error of the summary.
BalanceDto(balance) ==
    IF balance.err # "-"
    THEN [err |-> balance.err, received_sats |-> 0, paid_sats |-> 0, total_balance |-> 0,
          last_updated |-> 0]
    ELSE [err |-> "-",
          received_sats |-> balance.received_sats,
          paid_sats |-> balance.paid_sats,
          total_balance |-> balance.pending_received_sats - balance.pending_paid_sats,
          last_updated |-> balance.last_updated]

\* api::get_balance
get_balance(s, now, poolOk) ==
    BalanceDto(get_balance_summary(s, "receive", "send", now, poolOk))

\* get_balance_fn
get_balance_fn(s, now, poolOk) ==
    BalanceDto(get_balance_summary(s, "receive", "send", now, poolOk))

\* The stored rows given to the balance: of either node, the amount going
\* with the hash.
BalanceRows ==
    {StoredRow(k, h, st, node, VariantOf(h)) :
        k \in TxType, h \in ListedHashes, st \in TxStatus, node \in NodeIds}

BalanceInputs(max) ==
    [store : Tables(BalanceRows, max), path : {"api", "fn"}, poolOk : BOOLEAN]

BalanceApply ==
    /\ fnOut = <<>>
    /\ fnOut' = <<IF fnIn.path = "api" THEN get_balance(fnIn.store, Now, fnIn.poolOk)
                  ELSE get_balance_fn(fnIn.store, Now, fnIn.poolOk)>>
    /\ UNCHANGED <<dbVars, call, nodeVars, streamVars, reconVars, bus, hist, req,
                   gateCalls, rx, lnd, mapIn, mapOut, fnIn, inv>>

\* A balance endpoint applied to one table.
BalanceSpec == PureInit(BalanceInputs(MaxRows)) /\ [][BalanceApply]_vars

(* ------------------------------------------------------------------ *)
(* The claims                                                          *)
(* ------------------------------------------------------------------ *)

\* This step is a write by the db function fn.
WroteBy(fn) == trans' # trans /\ lastWrite'.fn = fn

PubCount(k, h) == Cardinality({i \in DOMAIN bus : bus[i].tx.kind = k /\ bus[i].tx.hash = h})

\* The last two upsert_transaction calls of the reconciler carried the same
\* candidate and both returned Ok.
SameTwice ==
    /\ Len(hist) = 2
    /\ hist[1].cand = hist[2].cand
    /\ hist[1].res # "Err"
    /\ hist[2].res # "Err"

\* C1: once a stored record's status is Succeeded, Failed or Expired, no
\* upsert_transaction call changes that record's status.
C1_TerminalMonotone ==
    [][\A i \in DOMAIN store :
          (store[i].status \in Terminal /\ WroteBy("upsert_transaction"))
              => store'[i].status = store[i].status]_vars

\* C2: the Store holds at most one record per key (kind, payment_hash) under
\* every interleaving of upsert_transaction calls, create_transaction inserts
\* and status updates.
C2_Uniqueness ==
    \A i, j \in DOMAIN store :
        (store[i].kind = store[j].kind /\ store[i].hash = store[j].hash) => i = j

\* C2: a second insert of a key was refused while a status update had
\* changed the record.
C2_Witness ==
    /\ \E c \in GateCallers : call[c].pc = "ret" /\ call[c].ins /\ ~call[c].insOk
    /\ lastWrite.fn = "update_transaction_status"
    /\ Len(store) = 1

\* C3, as stated: two calls in a row with the same candidate, both Ok, give
\* Some for the first and None for the second.
C3_Original ==
    SameTwice => (hist[1].res = "Some" /\ hist[2].res = "None")

\* C3, amended: of two calls in a row with the same candidate, both Ok, the
\* second returns None and publishes nothing; the first returns Some exactly
\* when the Store did not hold the key with the candidate's status before it;
\* so at most one notification is published for the two.
C3_Idempotence ==
    SameTwice =>
        /\ hist[2].res = "None"
        /\ ~hist[2].pub
        /\ (hist[1].res = "Some") <=> (hist[1].pre # hist[1].cand.status)
        /\ hist[1].pub => hist[1].res = "Some"

\* C3: an event was handled twice, Some and a notification first, None after.
C3_Witness ==
    /\ SameTwice
    /\ hist[1].res = "Some"
    /\ hist[1].pub
    /\ hist[2].res = "None"

\* C4: once an event of a key has been upserted the Store holds exactly one
\* record of the key, and the notifications published for a key are never
\* more than the insert and status changes of its record.
C4_OncePerTransition ==
    /\ \A i \in DOMAIN hist :
          hist[i].res # "Err"
              => Cardinality(KeyRows(store, hist[i].cand.kind, hist[i].cand.hash)) = 1
    /\ \A key \in Keys : PubCount(key[1], key[2]) <= trans[key]

\* C4: an invoice the startup sync inserted had its event delivered twice
\* after a status change was published.
C4_Witness ==
    /\ SameTwice
    /\ hist[2].res = "None"
    /\ \E h \in Hashes :
          /\ PubCount("invoice", h) = 1
          /\ trans[<<"invoice", h>>] = 2
          /\ Cardinality(KeyRows(store, "invoice", h)) = 1

\* C5: upsert_transaction returns Some only if the call itself inserted the
\* record or changed its status, and None only if the Store held the key with
\* the candidate's status at some moment of the call.
C5_ReturnValue ==
    \A c \in Callers :
        call[c].pc = "ret" =>
            /\ call[c].res = "Some" => call[c].changed
            /\ call[c].res = "None" => call[c].sawEq

\* C6: of two upsert_transaction calls that raced to the insert of the same
\* absent key, exactly one returns Some, with the record it inserted, and the
\* other returns None; neither returns an error.
C6_InsertRace ==
    \A c, d \in Callers :
        (/\ c # d
         /\ call[c].pc = "ret" /\ call[d].pc = "ret"
         /\ call[c].ins /\ call[d].ins
         /\ call[c].cand.kind = call[d].cand.kind
         /\ call[c].cand.hash = call[d].cand.hash)
        => /\ {call[c].res, call[d].res} = {"Some", "None"}
           /\ call[c].res = "Some" <=> call[c].insOk
           /\ call[c].res = "Some" => call[c].tx = call[c].cand

\* C6: two calls raced to the insert of an absent key; one inserted it and
\* returned Some, the other was refused and returned None.
C6_Witness ==
    \E c, d \in GateCallers :
        /\ c # d
        /\ call[c].pc = "ret" /\ call[d].pc = "ret"
        /\ call[c].ins /\ call[d].ins
        /\ call[c].cand.kind = call[d].cand.kind
        /\ call[c].pre = "absent" /\ call[d].pre = "absent"
        /\ call[c].insOk /\ call[c].res = "Some"
        /\ ~call[d].insOk /\ call[d].res = "None"

\* The subscription is up and idle: the stream is open, nothing is in flight
\* on it and no event is being handled.
Quiescent ==
    /\ subPc = "next"
    /\ streamOpen
    /\ stream = <<>>

\* C7: no node event is lost: when the subscription is up and idle, and
\* neither the startup list fetch nor a database call of the reconciler has
\* failed, the Store's record of every invoice of the node reflects the
\* invoice's state.
C7_NoEventLost ==
    (Quiescent /\ ~faulted) =>
        \A h \in Hashes :
            nodeInv[h] # -1 =>
                StatusOf(store, "invoice", h) = lnd_state_to_tx_status(nodeInv[h])

\* C8: subscribe_to_invoices never returns; after a failed subscribe, a stream
\* error or the end of a stream the loop sleeps and subscribes again; and a
\* further subscribe call always comes, unless a stream stays open for ever.
C8_ReconnectResilience ==
    /\ [](subPc \in {"off", "subscribe", "next", "handle", "sleep"})
    /\ \A o \in {"subscribe_failed", "stream_error", "stream_ended"} :
          (subPc = "sleep" /\ outcome = o) ~> (subPc = "subscribe")
    /\ ([]<>(subPc = "subscribe")) \/ (<>[]streamOpen)

\* C8: the loop is about to subscribe again after a stream ended.
C8_Witness ==
    /\ subPc = "subscribe"
    /\ outcome = "stream_ended"
    /\ Len(bus) >= 1
    /\ inputs = MaxInputs

KindRestricted(s) ==
    \A i \in DOMAIN s :
        /\ s[i].kind = "invoice" => s[i].status # "failed"
        /\ s[i].kind = "payment" => s[i].status # "expired"

\* C10: no Invoice record is Failed, no Payment record is Expired, and every
\* status change of a record starts from Pending.
C10_KindAndFromPending ==
    [][/\ KindRestricted(store')
       /\ \A i \in DOMAIN store :
             store'[i].status # store[i].status => store[i].status = "pending"]_vars

\* The part of C10 on the kinds, alone.
KindRestrictedAlways == KindRestricted(store)

\* C11: a record present in the Store is present, under the same key, in
\* every later state: no step of the program removes a record.
C11_AppendOnly ==
    [][\A i \in DOMAIN store :
          /\ i \in DOMAIN store'
          /\ store'[i].kind = store[i].kind
          /\ store'[i].hash = store[i].hash]_vars

\* C11: the Store holds an Invoice record whose status was changed after its
\* insert and a Payment record inserted after it.
C11_Witness ==
    /\ Len(store) = 2
    /\ store[1].kind = "invoice"
    /\ trans[<<"invoice", store[1].hash>>] >= 2
    /\ store[2].kind = "payment"

\* C12: the live subscription handler publishes exactly when
\* upsert_transaction returned Some for the event: handle_invoice_event
\* returns with a notification sent if and only if the result was Some, and
\* an Invoice notification is sent by no other step.
C12_PublishIffSome ==
    [][/\ (subPc = "handle" /\ subPc' # "handle")
            => ((bus' # bus) <=> (call["sub"].res = "Some"))
       /\ (bus' # bus /\ bus'[Len(bus')].type # "PaymentSucceeded")
            => /\ subPc = "handle"
               /\ call["sub"].res = "Some"
               /\ Len(bus') = Len(bus) + 1]_vars

\* C12: one notification was published, and after it an event whose upsert
\* failed and an event whose upsert returned None were handled.
C12_Witness ==
    /\ Len(bus) = 1
    /\ Len(hist) = 2
    /\ hist[1].res = "Err" /\ ~hist[1].pub
    /\ hist[2].res = "None" /\ ~hist[2].pub
    /\ mainPc = "serving"

\* Nothing is published for a payment that failed.
FailedPaymentSilent ==
    \A p \in Reqs :
        (req[p].pc = "done" /\ req[p].out = "PaymentFailed")
            => \A i \in DOMAIN bus :
                  ~(bus[i].tx.kind = "payment" /\ bus[i].tx.hash = req[p].hash)

\* C13: every notification published carries a record that fits its kind:
\* InvoiceCreated an Invoice Pending, InvoiceSettled an Invoice Succeeded,
\* InvoiceExpired an Invoice Expired, PaymentSucceeded a Payment Succeeded
\* that the Store holds as Succeeded; there is no other kind of notification,
\* and none for a payment that failed.
C13_EventFitsRecord ==
    /\ FailedPaymentSilent
    /\ \A i \in DOMAIN bus :
        LET e == bus[i]
        IN  /\ e.type \in {"InvoiceCreated", "InvoiceSettled", "InvoiceExpired",
                            "PaymentSucceeded"}
            /\ e.type = "InvoiceCreated"
                  => (e.tx.kind = "invoice" /\ e.tx.status = "pending")
            /\ e.type = "InvoiceSettled"
                  => (e.tx.kind = "invoice" /\ e.tx.status = "succeeded")
            /\ e.type = "InvoiceExpired"
                  => (e.tx.kind = "invoice" /\ e.tx.status = "expired")
            /\ e.type = "PaymentSucceeded"
                  => /\ e.tx.kind = "payment" /\ e.tx.status = "succeeded"
                     /\ StatusOf(store, "payment", e.tx.hash) = "succeeded"

\* C13: an invoice was created and settled and a payment succeeded, each
\* with its notification.
C13_Witness ==
    /\ Len(bus) = 3
    /\ bus[1].type = "InvoiceCreated"
    /\ bus[2].type = "InvoiceSettled"
    /\ bus[3].type = "PaymentSucceeded"

\* C14: the events of a subscription stream are processed in the order of
\* receipt, one at a time: the loop takes the item at the head of the stream,
\* and only when the upsert and the publish of the item before it are over;
\* an Invoice notification is published while its own event is the one being
\* handled, so the notifications follow the order of their events.
C14_ReceiptOrder ==
    [][/\ (subEv' # subEv /\ subEv' # <<>>)
            => /\ subEv = <<>>
               /\ call["sub"].pc = "idle"
               /\ stream # <<>>
               /\ subEv' = Head(stream)
               /\ stream' = Tail(stream)
       /\ (call["sub"].pc = "idle" /\ call'["sub"].pc # "idle")
            => (subEv' # subEv /\ subEv' # <<>>)
       /\ (bus' # bus /\ bus'[Len(bus')].type # "PaymentSucceeded")
            => /\ subEv # <<>>
               /\ call["sub"].pc = "ret"
               /\ bus'[Len(bus')].tx.hash = subEv[2]
               /\ bus'[Len(bus')].tx.status = lnd_state_to_tx_status(subEv[3])
               /\ subEv' = <<>>]_vars

\* C14: the first two events of a stream are handled and published, the
\* third is being handled and a stream error waits behind it.
C14_Witness ==
    /\ Len(bus) = 2
    /\ bus[1].type = "InvoiceCreated"
    /\ bus[2].type = "InvoiceSettled"
    /\ subPc = "handle"
    /\ stream # <<>>

\* C15: a Store error while an event is handled publishes nothing and leaves
\* the stream and the loop as they are, so that the next item of the stream is
\* taken; the inner loop is left only when the stream yields an error item or
\* ends, and then for the sleep before the reconnect.
C15_HandlerErrorContinues ==
    [][/\ (subPc = "handle" /\ call["sub"].res = "Err" /\ subPc' # subPc)
            => /\ subPc' = "next"
               /\ bus' = bus
               /\ stream' = stream
               /\ streamOpen' = streamOpen
       /\ (subPc \in {"next", "handle"} /\ subPc' \notin {"next", "handle"})
            => /\ subPc = "next"
               /\ stream # <<>>
               /\ Head(stream)[1] \in {"end", "error"}
               /\ subPc' = "sleep"]_vars

\* C15: the upsert of one item failed and the item sent next was handled,
\* with a notification.
C15_Witness ==
    /\ Len(hist) = 2
    /\ hist[1].res = "Err"
    /\ hist[1].from = "stream"
    /\ hist[2].from = "stream"
    /\ hist[2].res = "Some"
    /\ hist[2].pub
    /\ streamOpen

\* C16: the startup sync is best-effort: a failed list fetch leaves the Store
\* as it is and main goes on to the spawn; after a successful fetch every
\* listed invoice is upserted, in the order listed, also after the upsert of
\* an earlier one failed, and every upsert that did not fail left the record
\* with the mapped status; in every case the subscription task is spawned.
C16_SyncBestEffort ==
    /\ [][(mainPc = "list" /\ mainPc' = "spawn") => store' = store]_vars
    /\ [](mainPc \in {"spawn", "serving"} =>
            \/ hist = <<>> /\ store = <<>>
            \/ /\ Len(hist) = Len(ListInvoices)
               /\ \A i \in DOMAIN hist :
                     /\ hist[i].cand.hash = ListInvoices[i][1]
                     /\ hist[i].res # "Err"
                           => StatusOf(store, "invoice", hist[i].cand.hash)
                                 = lnd_state_to_tx_status(ListInvoices[i][2]))
    /\ <>(subPc = "subscribe")

\* C16: the upsert of the first of two listed invoices failed, the second
\* was inserted, and the subscription task is spawned.
C16_Witness ==
    /\ mainPc = "serving"
    /\ subPc = "subscribe"
    /\ Len(hist) = 2
    /\ hist[1].res = "Err"
    /\ hist[2].res = "Some"
    /\ Len(store) = 1

\* The table of the mapping, written out.
MappingTable(code) ==
    CASE code = 0 -> "pending"
      [] code = 1 -> "succeeded"
      [] code = 2 -> "expired"
      [] code = 3 -> "pending"
      [] OTHER -> "pending"

\* C17: the mapping of the node's state codes is the fixed table Open to
\* Pending, Accepted to Pending, Settled to Succeeded, Canceled to Expired and
\* every other code to Pending; it never yields Failed, and a code that is not
\* one of the four never yields a terminal status.
C17_MappingTable ==
    mapOut # "-" =>
        /\ mapOut = MappingTable(mapIn)
        /\ mapOut \in TxStatus \ {"failed"}
        /\ mapIn \notin {Open, Settled, Canceled, Accepted} => mapOut \notin Terminal
        /\ mapIn = Open => mapOut = "pending"
        /\ mapIn = Accepted => mapOut = "pending"
        /\ mapIn = Settled => mapOut = "succeeded"
        /\ mapIn = Canceled => mapOut = "expired"

\* C17: a code that is none of the four was mapped, to Pending.
C17_Witness ==
    /\ mapIn = 7
    /\ mapOut = "pending"

\* The events a client has received are events sent after it connected, in
\* the order sent.
InOrderSinceStart(c) ==
    /\ \A k \in DOMAIN rx[c].got :
          /\ rx[c].got[k] >= rx[c].start
          /\ rx[c].got[k] < rx[c].pos
    /\ \A k \in 1..Len(rx[c].got) - 1 : rx[c].got[k] < rx[c].got[k + 1]

C19_SlowSubscriber ==
    /\ []((subPc = "handle" /\ call["sub"].pc = "ret") => ENABLED Handled)
    /\ [][bus' # bus => rx' = rx]_vars
    /\ [][\A c \in Subs :
             rx'[c].lag # rx[c].lag
                => /\ rx[c].pos <= Len(bus) - BusCapacity
                   /\ rx'[c].pos = Len(bus) - BusCapacity + 1
                   /\ rx'[c].got = rx[c].got
                   /\ \A d \in Subs \ {c} : rx'[d] = rx[d]]_vars
    /\ [](\A c \in Subs : rx[c].start > 0 => (rx[c].pos > 0 /\ InOrderSinceStart(c)))

\* C19: a client fell behind, lost the first event and received the second;
\* the other client received both.
C19_Witness ==
    /\ rx["s1"].lag = 1 /\ rx["s1"].start = 1 /\ rx["s1"].got = <<2>>
    /\ rx["s2"].lag = 0 /\ rx["s2"].start = 1 /\ rx["s2"].got = <<1, 2>>

\* C20: an event sent while the channel has no receiver costs the publisher
\* nothing: the live handler returns Ok and the loop goes on, the pay-invoice
\* path answers Ok, the Store holds the record as just written, and no client
\* ever receives the event.
C20_NoSubscriberNoOp ==
    /\ [][(bus' # bus /\ bus'[Len(bus')].rcv = 0)
             => LET e == bus'[Len(bus')]
                IN  /\ StatusOf(store', e.tx.kind, e.tx.hash) = e.tx.status
                    /\ e.type = "PaymentSucceeded"
                          => \E p \in Reqs :
                                /\ req[p].pc = "update"
                                /\ req'[p].pc = "done"
                                /\ req'[p].out = "Ok"
                    /\ e.type # "PaymentSucceeded"
                          => /\ subPc' = "next"
                             /\ hist'[Len(hist')].ret = "Ok"]_vars
    /\ [](\A c \in Subs : \A k \in DOMAIN rx[c].got : bus[rx[c].got[k]].rcv > 0)

\* C20: the live handler and a pay-invoice path each sent an event with no
\* receiver; a client that connected afterwards has received a later event only.
C20_Witness ==
    /\ Len(bus) = 3
    /\ bus[1].rcv = 0 /\ bus[1].type = "InvoiceCreated"
    /\ bus[2].rcv = 0 /\ bus[2].type = "PaymentSucceeded"
    /\ bus[3].rcv = 1
    /\ rx["s1"].got = <<3>>

\* C21: on one node connection at most one call is in flight; the caller whose
\* call is in flight holds the lock from before the call is issued until the
\* answer is received, and no other caller's call is issued meanwhile.
InFlight == {c \in LndCallers : lnd.pc[c] = "rpc"}

C21_OneCallInFlight ==
    /\ Cardinality(InFlight) <= 1
    /\ \A c \in InFlight :
          /\ lnd.holder = c
          /\ \A d \in LndCallers \ {c} : ~ENABLED LndIssue(d)

C21_Witness ==
    /\ lnd.pc["t1"] = "rpc" /\ lnd.op["t1"] = "send_payment"
    /\ lnd.pc["t2"] = "lock" /\ lnd.op["t2"] = "decode_payment_request"
    /\ lnd.res["t3"] = "Ok" /\ lnd.op["t3"] = "create_invoice"

\* N followed by k zeros: N x 10^k.
Times10(N, k) == IF Strip(N) = <<0>> THEN <<0>> ELSE Strip(N) \o [i \in 1..k |-> 0]

\* The human-readable part is a network prefix, the number N and at most a
\* multiplier letter.
PlainAmount ==
    /\ fnOut # <<>>
    /\ fnIn.prefix \in {<<"l", "n", "b", "c">>, <<"l", "n", "t", "b">>, <<"l", "n">>}
    /\ fnIn.suffix \in {<<>>, <<"m">>, <<"u">>, <<"n">>, <<"p">>}

ZerosOf(suffix) ==
    CASE suffix = <<>> -> 11 [] suffix = <<"m">> -> 8 [] suffix = <<"u">> -> 5
      [] suffix = <<"n">> -> 2 [] OTHER -> 0

\* C22: the amount is N x 100_000_000_000 without a multiplier, N x 100_000_000
\* with m, N x 100_000 with u and N x 100 with n; 25 with m is 2_500_000_000;
\* without an amount portion the amount is absent, never zero.
C22_AmountScaling ==
    PlainAmount =>
        LET N == fnIn.number
            msats == Times10(N, ZerosOf(fnIn.suffix))
        IN  /\ N = <<>> => fnOut[1] = AmountNone
            /\ (N # <<>> /\ fnIn.suffix # <<"p">> /\ Leq(msats, U64Max))
                  => fnOut[1] = AmountSome(msats)
            /\ (N = <<2, 5>> /\ fnIn.suffix = <<"m">>)
                  => fnOut[1].amount = <<2, 5, 0, 0, 0, 0, 0, 0, 0, 0>>

C22_Witness ==
    /\ fnIn = [prefix |-> <<"l", "n", "b", "c">>, number |-> <<2, 5>>, suffix |-> <<"m">>]
    /\ fnOut = <<AmountSome(<<2, 5, 0, 0, 0, 0, 0, 0, 0, 0>>)>>

\* C23: with the multiplier p a value that is not divisible by 10 gives the
\* SubMillisatoshi error and is never truncated; a divisible value gives
\* value / 10.
C23_PicoPrecision ==
    (PlainAmount /\ fnIn.suffix = <<"p">> /\ fnIn.number # <<>>
       /\ Leq(Strip(fnIn.number), U64Max)) =>
        LET N == Strip(fnIn.number)
        IN  IF N[Len(N)] # 0
            THEN fnOut[1] = AmountErr("SubMillisatoshi")
            ELSE /\ fnOut[1].some
                 /\ Times10(fnOut[1].amount, 1) = N

C23_Witness ==
    /\ fnIn = [prefix |-> <<"l", "n", "b", "c">>, number |-> <<2, 5, 0, 1>>,
               suffix |-> <<"p">>]
    /\ fnOut = <<AmountErr("SubMillisatoshi")>>

\* The amount 2500 with the multiplier p has been decoded.
Pico2500 == PlainAmount /\ fnIn.number = <<2, 5, 0, 0>> /\ fnIn.suffix = <<"p">>

\* C24, as stated: 2500 with the multiplier p gives the SubMillisatoshi error.
C24_Original == Pico2500 => fnOut[1].err = "SubMillisatoshi"

\* C24: 2500 with the multiplier p is divisible by 10 and gives the amount
\* 250; 2501 with the multiplier p gives the SubMillisatoshi error.
C24_PicoExample ==
    /\ Pico2500 => fnOut[1] = AmountSome(<<2, 5, 0>>)
    /\ (PlainAmount /\ fnIn.number = <<2, 5, 0, 1>> /\ fnIn.suffix = <<"p">>)
          => fnOut[1] = AmountErr("SubMillisatoshi")

C24_Witness ==
    /\ fnIn = [prefix |-> <<"l", "n", "t", "b">>, number |-> <<2, 5, 0, 0>>,
               suffix |-> <<"p">>]
    /\ fnOut = <<AmountSome(<<2, 5, 0>>)>>

\* C25: for every N that fits 64 bits and every multiplier, when N times the
\* multiplier's constant exceeds 64 bits the result is the AmountOverflow
\* error, and otherwise the exact product; no amount returned exceeds 64 bits.
C25_OverflowDistinct ==
    (PlainAmount /\ fnIn.number # <<>> /\ Leq(Strip(fnIn.number), U64Max)) =>
        LET product == Times10(fnIn.number, ZerosOf(fnIn.suffix))
        IN  /\ fnOut[1].some => Leq(fnOut[1].amount, U64Max)
            /\ IF fnIn.suffix = <<"p">> THEN fnOut[1].err # "AmountOverflow"
               ELSE IF Leq(product, U64Max) THEN fnOut[1] = AmountSome(product)
               ELSE fnOut[1] = AmountErr("AmountOverflow")

C25_Witness ==
    /\ fnIn = [prefix |-> <<"l", "n", "b", "c">>,
               number |-> <<1, 8, 4, 4, 6, 7, 4, 4, 0, 7, 3, 8>>, suffix |-> <<"m">>]
    /\ fnOut = <<AmountErr("AmountOverflow")>>

\* Bit k of the symbols laid end to end, five bits each, most significant first.
BitAt(data, k) == Bits5(data[((k - 1) \div 5) + 1])[((k - 1) % 5) + 1]

\* The byte made of the bits 8j-7 .. 8j.
ByteOf(data, j) ==
    LET b(i) == BitAt(data, 8 * (j - 1) + i)
    IN  128 * b(1) + 64 * b(2) + 32 * b(3) + 16 * b(4) + 8 * b(5) + 4 * b(6) + 2 * b(7) + b(8)

\* C27: five_bit_to_bytes gives one byte for every 8 bits, most significant
\* first; it returns InvalidPadding exactly when the bits left after the last
\* whole byte are not all zero, and otherwise the floor(5n/8) leading bytes.
C27_Repacking ==
    fnOut # <<>> =>
        LET n == Len(fnIn)
            whole == (5 * n) \div 8
            rest == {k \in (8 * whole + 1)..(5 * n) : BitAt(fnIn, k) = 1}
        IN  IF rest # {} THEN fnOut[1] = RepackErr("InvalidPadding")
            ELSE fnOut[1] = RepackOk([j \in 1..whole |-> ByteOf(fnIn, j)])

C27_Witness ==
    /\ fnIn = <<20, 31, 0, 0>>
    /\ fnOut = <<RepackOk(<<167, 192>>)>>

\* The value of a tag's words read as a base-32 number, for a few words.
RECURSIVE Base32(_)
Base32(ws) == IF ws = <<>> THEN 0 ELSE Base32(Front(ws)) * 32 + ws[Len(ws)]

\* The positions of the expiry fields of the decoded payload.
ExpiryFields == {i \in DOMAIN fnIn.fields : fnIn.fields[i].tag = 6}

LastOf(S) == CHOOSE i \in S : \A j \in S : j <= i

\* C26: a successfully decoded payload without an expiry field, a payload of
\* timestamp and signature alone included, has expiry_seconds 3600; with
\* expiry fields the value is that of the last one.
C26_ExpiryDefault ==
    (fnOut # <<>> /\ fnOut[1].err = "-") =>
        IF ExpiryFields = {}
        THEN fnOut[1].expiry_seconds = U64Bits(3600)
        ELSE fnOut[1].expiry_seconds
                = U64Bits(Base32(fnIn.fields[LastOf(ExpiryFields)].data))

C26_Witness ==
    /\ fnIn.fields = <<[tag |-> 6, data |-> <<1, 0, 8>>], [tag |-> 6, data |-> <<1>>]>>
    /\ fnOut # <<>>
    /\ fnOut[1].err = "-"
    /\ fnOut[1].expiry_seconds = U64Bits(1)

\* The typed errors of the decoder.
DecodeErrors ==
    {"Empty", "InvalidBech32", "InvalidVariant", "DataTooShort", "InvalidPrefix",
     "InvalidAmount", "AmountOverflow", "SubMillisatoshi", "TagLengthOverflow",
     "TagLengthMissing", "InvalidPadding", "InvalidDescription"}

\* C28: on every input decode_payment_request_local returns, and what it
\* returns is the decoded fields or one typed error, never a panic; the result
\* is a function of the input.
C28_Total ==
    /\ decode_payment_request_local(fnIn).err \in DecodeErrors \cup {"-"}
    /\ fnOut # <<>> =>
          /\ Len(fnOut) = 1
          /\ fnOut[1].err \in DecodeErrors \cup {"-"}
          /\ fnOut[1].err # "-" => fnOut[1] = DecodeErr(fnOut[1].err)

C28_Witness ==
    /\ fnIn.fields = <<[tag |-> 13, data |-> <<12, 4>>]>>
    /\ fnIn.tail = <<6, 0>>
    /\ fnOut = <<DecodeErr("TagLengthMissing")>>

\* The submissions that have issued send_payment for the hash h.
Senders(h) == {p \in Reqs : req[p].sent /\ req[p].hash = h}

\* C29: for any payment hash, over every interleaving of concurrent or
\* repeated submissions on both pay paths, send_payment is issued at most
\* once, and only by a submission whose insert of the Pending record succeeded.
C29_NoDoublePayment ==
    /\ \A h \in Hashes : Cardinality(Senders(h)) <= 1
    /\ \A p \in Reqs : (req[p].sent \/ req[p].pc = "send")
                            => HasKey(store, "payment", req[p].hash)

C29_Witness ==
    /\ req[1].hash = "h1" /\ req[1].path = "fn" /\ req[1].pc = "update"
    /\ req[2].hash = "h1" /\ req[2].path = "fn" /\ req[2].pc = "done"
    /\ req[2].out = "DbError" /\ ~req[2].sent

\* C30: when a submission has inserted the Pending Payment record and the node
\* has answered the send request, the record is Failed (payment error) or
\* Succeeded (otherwise) before the submission returns, on both pay paths;
\* stated for the submissions whose status update, if made, did not fail.
C30_TerminalBeforeReturn ==
    \A p \in Reqs :
        (req[p].pc = "done" /\ req[p].sent /\ req[p].ans \in {"payment_error", "paid"}
           /\ req[p].upd # "failed")
        => StatusOf(store, "payment", req[p].hash)
              = (IF req[p].ans = "payment_error" THEN "failed" ELSE "succeeded")

\* C31: sync_invoices_from_lnd has returned before the subscription task is
\* spawned, so the two never run upsert_transaction at the same time.
C31_SyncBeforeSubscription ==
    /\ (mainPc \in {"list", "sync"} \/ call["sync"].pc # "idle")
          => (subPc = "off" /\ call["sub"].pc = "idle" /\ ~streamOpen)
    /\ ~(call["sync"].pc # "idle" /\ call["sub"].pc # "idle")

\* C31: the sync pass has upserted the invoice h1 and returned; the live
\* handler is now in upsert_transaction for the same key.
C31_Witness ==
    /\ Len(hist) >= 1
    /\ hist[Len(hist)].from = "list" /\ hist[Len(hist)].cand.hash = "h1"
    /\ call["sub"].pc # "idle" /\ call["sub"].cand.hash = "h1"
    /\ call["sync"].pc = "idle"

\* C32: the startup sync publishes nothing: the Event Bus is empty until the
\* sync has returned, no step of sync_invoices_from_lnd (its writes to the
\* Store, its tally) adds a notification, and an Invoice notification always
\* stems from a change the live handler made itself, so what the sync pass
\* inserted or changed is tallied and never notified.
C32_SyncSilent ==
    [][/\ (mainPc \in {"list", "sync", "spawn"}) => (bus = <<>> /\ bus' = <<>>)
       /\ (call'["sync"] # call["sync"]) => bus' = bus
       /\ (call["sync"].pc = "ret" /\ call'["sync"].pc = "idle")
             => ~hist'[Len(hist')].pub
       /\ (bus' # bus /\ bus'[Len(bus')].tx.kind = "invoice")
             => /\ subPc = "handle"
                /\ call["sub"].res = "Some"
                /\ call["sub"].pre # call["sub"].cand.status
                /\ hist'[Len(hist')].from = "stream"]_vars

\* C32: the sync pass inserted the invoice h1 (result Some, tallied), the
\* server is serving with an observer connected, the live handler has handled
\* an event since, and the bus holds nothing for h1.
C32_Witness ==
    /\ Len(hist) = 2
    /\ hist[1].from = "list" /\ hist[1].res = "Some" /\ hist[1].cand.hash = "h1"
    /\ ~hist[1].pub
    /\ hist[2].from = "stream" /\ hist[2].cand = hist[1].cand /\ hist[2].res = "None"
    /\ mainPc = "serving"
    /\ Receivers > 0
    /\ PubCount("invoice", "h1") = 0

\* The columns of a row other than status and updated_at.
KeptColumns(row) ==
    <<row.kind, row.hash, row.payment_request, row.amount_sats, row.description,
      row.preimage, row.fee_sats, row.failure_reason, row.expires_at, row.node_id,
      row.created_at>>

\* C33: when upsert_transaction takes the update path, the row of the key
\* gets the candidate's status and the time of the call as updated_at and
\* keeps every other column as stored, whatever the candidate carries; every
\* other row and the number of rows stay as they were, and the row returned
\* is the row as stored afterwards. When it returns None the table is
\* unchanged.
C33_UpdateFrame ==
    fnOut # <<>> =>
        LET r == fnOut[1]
            s == fnIn.store
            new == fnIn.new_tx
        IN  /\ r.by = "update" =>
                /\ r.res = "Some"
                /\ Len(r.store) = Len(s)
                /\ \A i \in DOMAIN s :
                      IF s[i].kind = new.kind /\ s[i].hash = new.hash
                      THEN /\ KeptColumns(r.store[i]) = KeptColumns(s[i])
                           /\ r.store[i].status = new.status
                           /\ r.store[i].updated_at = Now
                           /\ r.tx = <<r.store[i]>>
                      ELSE r.store[i] = s[i]
            /\ r.res = "None" => r.store = s

\* C33: the update path was taken for a stored row that differs from the
\* candidate in every column the candidate carries, next to a row of another
\* key.
C33_Witness ==
    /\ fnOut # <<>>
    /\ fnOut[1].by = "update"
    /\ Len(fnIn.store) = 2
    /\ fnIn.store[1].kind = "invoice" /\ fnIn.store[1].hash = "h1"
    /\ fnIn.store[1].status = "pending"
    /\ fnIn.new_tx.kind = "invoice" /\ fnIn.new_tx.status = "succeeded"
    /\ fnIn.new_tx.amount_sats # fnIn.store[1].amount_sats
    /\ fnIn.new_tx.payment_request # fnIn.store[1].payment_request
    /\ fnIn.new_tx.description # fnIn.store[1].description
    /\ fnIn.new_tx.expires_at # fnIn.store[1].expires_at
    /\ fnIn.new_tx.node_id # fnIn.store[1].node_id
    /\ fnOut[1].store[1].status = "succeeded"
    /\ fnOut[1].store[1].amount_sats = fnIn.store[1].amount_sats

\* The rows of kind k are in s2 what they are in s1, and s2 holds no further one.
SameRowsOf(k, s1, s2) ==
    \A i \in DOMAIN s2 :
        s2[i].kind = k => (i \in DOMAIN s1 /\ s1[i] = s2[i])

\* C34: a step of the reconciler (the startup sync or the live handler, in
\* upsert_transaction) carries a candidate of kind Invoice and leaves every
\* Payment record as it was, creating none, whatever the payment hash; a step
\* of a pay-invoice path leaves every Invoice record as it was and creates
\* none.
C34_KindsKeptApart ==
    [][/\ \A c \in {"sync", "sub"} :
             (call'[c] # call[c])
                => /\ call'[c].cand.kind \in {"invoice", "-"}
                   /\ SameRowsOf("payment", store, store')
       /\ (req' # req) => SameRowsOf("invoice", store, store')]_vars

\* C34: the Store held the Pending Payment record of h1 when the reconciler
\* inserted the Invoice record of the same payment hash and then changed its
\* status; the payment is Pending still.
C34_Witness ==
    /\ Len(store) = 2
    /\ store[1].kind = "payment" /\ store[1].hash = "h1" /\ store[1].status = "pending"
    /\ store[2].kind = "invoice" /\ store[2].hash = "h1"
    /\ trans[<<"invoice", "h1">>] = 2
    /\ lastWrite.fn = "upsert_transaction"

\* C35: when api::pay_invoice looks up the decoded hash and the Store holds a
\* Payment record of it, in any status, the handler returns DuplicatePayment
\* (or the database error of the lookup) and goes no further; a handler that
\* returned DuplicatePayment found such a record, wrote nothing to the Store,
\* issued no send_payment and published nothing in any of its steps; and a
\* BadRequest (the empty payment_request) is returned by the handler's first
\* step, before decode_payment_request is called.
C35_DuplicateRejected ==
    [][\A p \in Reqs :
          (req'[p] # req[p]) =>
              /\ (req[p].pc = "check" /\ HasKey(store, "payment", req[p].hash))
                    => /\ req'[p].pc = "done"
                       /\ req'[p].out \in {"DuplicatePayment", "DbError"}
              /\ (req'[p].out = "DuplicatePayment")
                    => /\ req[p].pc = "check" /\ req[p].path = "api"
                       /\ HasKey(store, "payment", req[p].hash)
                       /\ ~req'[p].sent /\ req'[p].upd = "-"
              /\ (req'[p].pc \in {"decode", "check"}
                     \/ req'[p].out \in {"DuplicatePayment", "BadRequest"})
                    => (store' = store /\ bus' = bus)
              /\ (req'[p].out = "BadRequest")
                    => (req[p].pc = "new" /\ ~req'[p].sent)]_vars

\* C35: a submission of h1 ended with PaymentFailed and the record is
\* Failed; another submission of the same request on the HTTP path was
\* answered DuplicatePayment, with nothing sent and nothing published.
C35_Witness ==
    /\ StatusOf(store, "payment", "h1") = "failed"
    /\ Len(store) = 1
    /\ req[1].pc = "done" /\ req[1].out = "PaymentFailed"
    /\ req[2].pc = "done" /\ req[2].path = "api" /\ req[2].hash = "h1"
    /\ req[2].out = "DuplicatePayment" /\ ~req[2].sent
    /\ bus = <<>>

\* C36: no step of the create-invoice handler changes the Store (or the
\* bus), whatever its outcome; a rejection for a non-positive amount is the
\* handler's first step, with no call to the node; the invoice the node adds
\* for an accepted submission has no record at that moment; and an Invoice
\* record is inserted by a step of upsert_transaction called by the
\* reconciler only.
C36_CreateWritesNothing ==
    [][/\ (inv' # inv) => (store' = store /\ bus' = bus)
       /\ (inv' # inv /\ inv'.out \in {"BadRequest", "InvalidAmount"})
             => (inv.pc \in {"new", "done"} /\ nodeInv' = nodeInv /\ stream' = stream)
       /\ (inv' # inv /\ inv'.pc = "answered" /\ inv'.hash # "-")
             => ~HasKey(store', "invoice", inv'.hash)
       /\ (Len(store') > Len(store))
             => /\ store'[Len(store')].kind = "invoice"
                /\ WroteBy("upsert_transaction")
                /\ \E c \in ProgCallers :
                      /\ call[c].pc = "insert" /\ call'[c].pc = "ret"
                      /\ call[c].cand.hash = store'[Len(store')].hash
                /\ inv' = inv]_vars

\* C36: a create-invoice submission was accepted and has returned the
\* invoice h1, and the Store holds the Pending Invoice record of h1, inserted
\* by the live handler from the node's event.
C36_Witness ==
    /\ inv.pc = "done" /\ inv.out = "Created" /\ inv.hash = "h1"
    /\ Len(store) = 1
    /\ store[1].kind = "invoice" /\ store[1].hash = "h1" /\ store[1].status = "pending"
    /\ Len(hist) = 1
    /\ hist[1].from = "stream" /\ hist[1].res = "Some" /\ hist[1].pre = "absent"

\* The words in front of the signature of an encoded body with these fields
\* and this tail.
NoSig(fields, tail) == [i \in 1..TimestampLen |-> 0] \o Encode(fields) \o tail

KnownTag(f) == f.tag \in {6, 13}

\* C37: for a payload of timestamp, whole fields, a tail and the 104-word
\* signature, the scan stays in front of the signature. It never indexes past
\* the last word before it (no panic). With no tail the cursor ends on the
\* signature's first position and the scan returns what the fields hold, which
\* is what they hold without the fields of unknown type. A tail that is a
\* type with fewer than two words after it gives TagLengthMissing, and a tail
\* whose declared length exceeds the words left before the signature gives
\* TagLengthOverflow, where reading on into the signature would have given a
\* field. An error inside an earlier field comes first.
C37_ScanStaysBeforeSignature ==
    (/\ fnOut # <<>>
     /\ Bech32Ok(fnIn) /\ fnIn.variant = "Bech32"
     /\ Len(fnIn.data) >= MIN_DATA_LEN)
    => LET whole == decode_tagged_fields(NoSig(fnIn.fields, <<>>))
           known == decode_tagged_fields(NoSig(SelectSeq(fnIn.fields, KnownTag), <<>>))
           tail == fnIn.tail
           r == fnOut[1]
       IN  /\ r.err # "panic"
           /\ whole = known
           /\ whole.err \notin {"TagLengthMissing", "TagLengthOverflow", "panic"}
           /\ whole.err # "-" => r.err = whole.err
           /\ whole.err = "-" =>
                 IF tail = <<>>
                 THEN /\ r.err \notin {"TagLengthMissing", "TagLengthOverflow"}
                      /\ r.err = "-" =>
                            /\ r.has_description = whole.has_description
                            /\ r.description = whole.description
                            /\ r.expiry_seconds = whole.expiry_seconds
                 ELSE IF Len(tail) < 3
                 THEN r.err = "TagLengthMissing"
                 ELSE (tail[2] * 32 + tail[3] > Len(tail) - 3)
                         => r.err = "TagLengthOverflow"

\* C37: a description, then a field of unknown type, then an expiry type
\* whose declared length of two words has one word before the signature.
C37_Witness ==
    /\ fnIn.fields = <<[tag |-> 13, data |-> <<12, 4>>], [tag |-> 1, data |-> <<31, 4>>]>>
    /\ fnIn.tail = <<6, 0, 2, 1>>
    /\ fnOut = <<DecodeErr("TagLengthOverflow")>>

\* C37: a field of unknown type between an expiry and a description, then the
\* signature: the scan ends on the signature's first position with both.
C37_WitnessWhole ==
    /\ fnIn.fields = <<[tag |-> 1, data |-> <<1, 0, 8>>], [tag |-> 6, data |-> <<1>>]>>
    /\ fnIn.tail = <<>>
    /\ fnOut # <<>>
    /\ fnOut[1].err = "-"
    /\ fnOut[1].expiry_seconds = U64Bits(1)

\* The bits of the symbols laid end to end, most significant first.
RECURSIVE BitsOfWords(_)
BitsOfWords(ws) == IF ws = <<>> THEN <<>> ELSE Bits5(Head(ws)) \o BitsOfWords(Tail(ws))

\* C38: the decoded expiry_seconds is the number the words of the expiry tag
\* spell in base 32, most significant first, for a tag of any length: the
\* two have the same binary digits once leading zeros are dropped, so a tag
\* of more than 12 words is not reduced modulo 2^64.
C38_ExpiryBase32 ==
    (fnOut # <<>> /\ fnOut[1].err = "-" /\ Len(fnIn.fields) = 1 /\ fnIn.fields[1].tag = 6)
        => Strip(fnOut[1].expiry_seconds) = Strip(<<0>> \o BitsOfWords(fnIn.fields[1].data))

\* The part of C38 that the code keeps: the value is the low 64 bits of the
\* number the words spell.
C38_Low64 ==
    (fnOut # <<>> /\ fnOut[1].err = "-" /\ Len(fnIn.fields) = 1 /\ fnIn.fields[1].tag = 6)
        => LET bits == [i \in 1..64 |-> 0] \o BitsOfWords(fnIn.fields[1].data)
           IN  fnOut[1].expiry_seconds = SubSeq(bits, Len(bits) - 63, Len(bits))

\* An expiry tag of 13 words that spells 2^64 has been decoded to 0 seconds.
C38_Wrapped ==
    /\ fnIn.fields = <<[tag |-> 6, data |-> <<16>> \o [i \in 1..12 |-> 0]]>>
    /\ fnOut # <<>>
    /\ fnOut[1].err = "-"
    /\ fnOut[1].expiry_seconds = U64Bits(0)

\* What a record adds to received_sats, and to paid_sats.
ReceivedPart(row) ==
    IF row.node_id = "receive" /\ row.kind = "invoice"
          /\ row.status \in {"pending", "succeeded"}
    THEN row.amount_sats ELSE 0

PaidPart(row) ==
    IF row.node_id = "send" /\ row.kind = "payment" /\ row.status = "succeeded"
    THEN row.amount_sats ELSE 0

RECURSIVE Total(_, _)
Total(Part(_), s) == IF s = <<>> THEN 0 ELSE Part(Head(s)) + Total(Part, Tail(s))

\* C39: received_sats is the sum of the amounts of the receive node's Invoice
\* records that are Pending or Succeeded and paid_sats the sum of the amounts
\* of the send node's Payment records that are Succeeded; every other record
\* (Failed, Expired, a Pending payment, the other node's) adds nothing, and
\* with no record selected the aggregate is 0.
C39_BalanceAggregates ==
    (fnOut # <<>> /\ fnOut[1].err = "-") =>
        /\ fnOut[1].received_sats = Total(ReceivedPart, fnIn.store)
        /\ fnOut[1].paid_sats = Total(PaidPart, fnIn.store)

\* C39: a Pending and a Succeeded invoice of the receive node add up in
\* received_sats, and with no payment paid_sats is 0.
C39_Witness ==
    /\ Len(fnIn.store) = 2
    /\ fnIn.store[1].kind = "invoice" /\ fnIn.store[1].status = "pending"
    /\ fnIn.store[1].hash = "h1" /\ fnIn.store[1].node_id = "receive"
    /\ fnIn.store[2].kind = "invoice" /\ fnIn.store[2].status = "succeeded"
    /\ fnIn.store[2].node_id = "receive"
    /\ fnOut # <<>>
    /\ fnOut[1].err = "-"
    /\ fnOut[1].received_sats = 7
    /\ fnOut[1].paid_sats = 0

\* C39: a Pending payment of the send node and an Expired invoice of the
\* receive node: both aggregates are 0.
C39_WitnessNone ==
    /\ Len(fnIn.store) = 2
    /\ fnIn.store[1].kind = "payment" /\ fnIn.store[1].status = "pending"
    /\ fnIn.store[1].node_id = "send"
    /\ fnIn.store[2].kind = "invoice" /\ fnIn.store[2].status = "expired"
    /\ fnIn.store[2].node_id = "receive"
    /\ fnOut # <<>>
    /\ fnOut[1].err = "-"
    /\ fnOut[1].received_sats = 0
    /\ fnOut[1].paid_sats = 0

\* C40: the total_balance of a balance response is its received_sats minus
\* its paid_sats, on both endpoints and for every table.
C40_TotalBalance ==
    (fnOut # <<>> /\ fnOut[1].err = "-") =>
        fnOut[1].total_balance = fnOut[1].received_sats - fnOut[1].paid_sats

\* What the endpoints report instead: the Pending invoices of the receive
\* node minus the Pending payments of the send node.
C40_PendingDifference ==
    (fnOut # <<>> /\ fnOut[1].err = "-") =>
        LET b == get_balance_summary(fnIn.store, "receive", "send", Now, TRUE)
        IN  /\ fnOut[1].total_balance = b.pending_received_sats - b.pending_paid_sats
            /\ total_balance(b) = fnOut[1].received_sats - fnOut[1].paid_sats

\* One Succeeded invoice of the receive node: received_sats 3, paid_sats 0,
\* total_balance 0.
C40_Reported ==
    /\ Len(fnIn.store) = 1
    /\ fnIn.store[1].kind = "invoice" /\ fnIn.store[1].status = "succeeded"
    /\ fnIn.store[1].node_id = "receive" /\ fnIn.store[1].hash = "h1"
    /\ fnOut # <<>>
    /\ fnOut[1].err = "-"
    /\ fnOut[1].received_sats = 3
    /\ fnOut[1].paid_sats = 0
    /\ fnOut[1].total_balance = 0

====
